---- MODULE Spec2Model ----
(***************************************************************************)
(* Runtime schema engine of the auto-generated CRUD + RBAC platform:       *)
(*   ModelDefinitionsService   (publishModel, deleteModel, migrateTable)   *)
(*   ModelDefinitionCacheService (the registry)                            *)
(*   DynamicApiService / DynamicApiController (create, update, delete)     *)
(*   RbacGuard.canActivate     (the access decision)                       *)
(***************************************************************************)
EXTENDS Integers, Sequences, FiniteSets, TLC

VARIABLES
    tables,   \* database: table name -> the columns of the table, in ordinal order
    rows,     \* database: table name -> the rows of the table (column name -> value)
    serial,   \* database: table name -> last value of the id SERIAL sequence
    files,    \* models directory: model name -> the document <name>.json
    cache,    \* ModelDefinitionCacheService.cache: model name -> definition
    call,     \* the publishModel / deleteModel call in flight
    last,     \* the last publishModel / deleteModel call that returned
    prev,     \* summary of the call that returned before it
    nops,     \* number of publishModel / deleteModel calls started
    pool,     \* the definitions the operator submits in this run
    faulty,   \* whether database statements and file operations may fail in this run
    resp,     \* the last /api request the guard decided and its outcome
    listing,  \* the findAll call in flight: its page is read, its count is not yet
    watch,    \* the watcher of the models directory: its pending file events
    parked,   \* a second publishModel call in flight, while the call in `call` runs
    guarded,  \* an /api request the guard has allowed and whose handler has not run yet
    caller    \* request.user of the publish and delete requests of this run

vars ==
    <<tables, rows, serial, files, cache, call, last, prev, nops, pool, faulty, resp, listing,
      watch, parked, guarded, caller>>

\* ------------------------------------------------------------------ values

UNDEF == "undefined"     \* a JavaScript undefined / absent property
NULLV == "null"          \* SQL NULL / JavaScript null
NoRbac == << >>          \* a definition without an rbac property
NoSql == << >>           \* no SQL text: a NULL column_default, no DEFAULT clause

\* ------------------------------------------------------------------ strings

\* The spelling of every name the model uses, character by character.
Chars(s) ==
    CASE s = "" -> << >>
      [] s = "P" -> <<"P">>
      [] s = "p" -> <<"p">>
      [] s = "Q" -> <<"Q">>
      [] s = "q" -> <<"q">>
      [] s = "t" -> <<"t">>
      [] s = "T" -> <<"T">>
      [] s = "1p" -> <<"1", "p">>
      [] s = "p;" -> <<"p", ";">>
      [] s = "a" -> <<"a">>
      [] s = "A" -> <<"A">>
      [] s = "b" -> <<"b">>
      [] s = "c" -> <<"c">>
      [] s = "o" -> <<"o">>
      [] s = "O" -> <<"O">>
      [] s = "r" -> <<"r">>
      [] s = "z" -> <<"z">>
      [] s = "a-b" -> <<"a", "-", "b">>
      [] s = "_a" -> <<"_", "a">>
      [] s = "id" -> <<"i", "d">>
      [] s = "user" -> <<"u", "s", "e", "r">>
      [] s = "User" -> <<"U", "s", "e", "r">>
      [] s = "createdAt" -> <<"c", "r", "e", "a", "t", "e", "d", "A", "t">>
      [] s = "updatedAt" -> <<"u", "p", "d", "a", "t", "e", "d", "A", "t">>
      [] s = "x" -> <<"x">>
      [] s = "y" -> <<"y">>
      [] s = "5" -> <<"5">>
      [] s = "7" -> <<"7">>
      [] s = "true" -> <<"t", "r", "u", "e">>
      [] s = "false" -> <<"f", "a", "l", "s", "e">>
      [] s = "x;" -> <<"x", ";">>
      [] s = "drop" -> <<"d", "r", "o", "p">>
      [] s = "1" -> <<"1">>
      [] s = "2" -> <<"2">>
      [] s = " a" -> <<" ", "a">>
      [] s = " " -> <<" ">>

AllNames ==
    {"", "P", "p", "Q", "q", "t", "T", "1p", "p;", "a", "A", "b", "c", "o", "O",
     "r", "z", "a-b", "_a", "id", "user", "User", "createdAt", "updatedAt",
     "x", "y", "5", "7", "true", "false", "x;", "drop", "1", "2", " a", " "}

LowerLetters ==
    {"a", "b", "c", "d", "e", "f", "i", "l", "o", "p", "q", "r", "s", "t", "u", "x", "y",
     "z"}
UpperLetters == {"A", "O", "P", "Q", "T", "U"}
Digits == {"0", "1", "2", "3", "4", "5", "6", "7", "8", "9"}

LowerChar(c) ==
    CASE c = "A" -> "a"
      [] c = "O" -> "o"
      [] c = "P" -> "p"
      [] c = "Q" -> "q"
      [] c = "T" -> "t"
      [] c = "U" -> "u"
      [] OTHER -> c

\* String.prototype.toLowerCase
ToLowerCase(s) ==
    LET cs == Chars(s)
        low == [i \in 1..Len(cs) |-> LowerChar(cs[i])]
    IN  IF low = cs THEN s
        ELSE IF \E m \in AllNames : Chars(m) = low
        THEN CHOOSE m \in AllNames : Chars(m) = low
        ELSE s

\* isValidIdentifier with the anchor on the first character left out.
isValidIdentifierNoFirst(name) ==
    LET cs == Chars(name)
    IN  /\ Len(cs) > 0
        /\ \A i \in 1..Len(cs) :
              cs[i] \in LowerLetters \cup UpperLetters \cup Digits \cup {"_"}

\* /^[a-zA-Z_][a-zA-Z0-9_]*$/.test(name) && name.length > 0
isValidIdentifier(name) ==
    LET cs == Chars(name)
    IN  /\ Len(cs) > 0
        /\ cs[1] \in LowerLetters \cup UpperLetters \cup {"_"}
        /\ \A i \in 1..Len(cs) :
              cs[i] \in LowerLetters \cup UpperLetters \cup Digits \cup {"_"}

RESERVED_NAMES == {"user", "migration", "enum"}

\* ------------------------------------------------------------------ defaults

FieldTypes == {"string", "number", "boolean", "date", "relation"}

Forbidden ==
    {"drop", "delete", "insert", "update", "alter", "create", "table", "schema", "select"}

\* Number(valueStr) is not NaN: the values used are digit strings or words.
IsNumeric(v) ==
    LET cs == Chars(v) IN Len(cs) > 0 /\ \A i \in 1..Len(cs) : cs[i] \in Digits

\* isValidDefaultValue(value, type)
isValidDefaultValue(value, type) ==
    LET cs == Chars(value)
    IN  IF value \in {NULLV, UNDEF, ""} THEN TRUE
        ELSE IF \E i \in 1..Len(cs) : cs[i] = ";" THEN FALSE
        ELSE IF \E i \in 1..(Len(cs) - 1) : cs[i] = "-" /\ cs[i + 1] = "-" THEN FALSE
        ELSE IF ToLowerCase(value) \in Forbidden THEN FALSE
        ELSE IF type = "number" /\ ~IsNumeric(value) THEN FALSE
        ELSE IF type = "boolean" /\ ToLowerCase(value) \notin {"true", "false"} THEN FALSE
        ELSE IF type = "date" /\ ~IsNumeric(value) THEN FALSE
        ELSE TRUE

\* ------------------------------------------------------------------ validation

\* A default policy that lets the Manager do everything
DefaultRbacManagerAll ==
    [Admin |-> {"all"}, Manager |-> {"all"}, Viewer |-> {"read"}]

\* publishModel, lines 95-101: the policy of a definition without rbac
DefaultRbac ==
    [Admin |-> {"all"}, Manager |-> {"create", "read", "update"}, Viewer |-> {"read"}]

FieldNames(fields) == {fields[i].name : i \in 1..Len(fields)}

\* modelDefinition.fields.find((f) => f.name === name): index, or 0
FindField(fields, name) ==
    IF \E i \in 1..Len(fields) : fields[i].name = name
    THEN CHOOSE i \in 1..Len(fields) :
            /\ fields[i].name = name
            /\ \A j \in 1..(i - 1) : fields[j].name # name
    ELSE 0

\* The checks of one turn of the loop over modelDefinition.fields;
\* seen = the lower-cased names of the fields before it.
ValidateField(field, seen, reg) ==
    IF ~isValidIdentifier(field.name) THEN "BadRequest"
    ELSE IF ToLowerCase(field.name) \in seen THEN "BadRequest"
    ELSE IF field.type = "relation" /\ field.targetModel \in {UNDEF, ""} THEN "BadRequest"
    ELSE IF field.type = "relation" /\ ~isValidIdentifier(field.targetModel) THEN "BadRequest"
    ELSE IF field.type = "relation" /\ field.targetModel \notin DOMAIN reg THEN "NotFound"
    ELSE IF field.default # UNDEF /\ ~isValidDefaultValue(field.default, field.type)
         THEN "BadRequest"
    ELSE "ok"

RECURSIVE ValidateFields(_, _, _, _)
ValidateFields(fields, i, seen, reg) ==
    IF i > Len(fields) THEN "ok"
    ELSE LET r == ValidateField(fields[i], seen, reg)
         IN  IF r # "ok" THEN r
             ELSE ValidateFields(fields, i + 1, seen \cup {ToLowerCase(fields[i].name)}, reg)

ValidateOwnerField(d) ==
    IF d.ownerField \in {UNDEF, ""} THEN "ok"
    ELSE IF ~isValidIdentifier(d.ownerField) THEN "BadRequest"
    ELSE LET i == FindField(d.fields, d.ownerField)
         IN  IF i # 0 /\ d.fields[i].type # "number" THEN "BadRequest" ELSE "ok"

\* validateModelDefinition: "ok", or the exception it throws
validateModelDefinition(d, reg) ==
    IF d.name = "" THEN "BadRequest"
    ELSE IF ~isValidIdentifier(d.name) THEN "BadRequest"
    ELSE IF ToLowerCase(d.name) \in RESERVED_NAMES THEN "BadRequest"
    ELSE IF d.tableName \notin {UNDEF, ""} /\ ~isValidIdentifier(d.tableName)
         THEN "BadRequest"
    ELSE LET r == ValidateFields(d.fields, 1, {}, reg)
         IN  IF r # "ok" THEN r ELSE ValidateOwnerField(d)

\* publishModel, lines 90-114: tableName, rbac and ownerField defaults
OwnerFieldDef(d) ==
    [name |-> d.ownerField, type |-> "number", required |-> FALSE,
     default |-> UNDEF, targetModel |-> UNDEF]

\* Defaults that leave the field list as the caller gave it
AugmentFieldsAsGiven(d) == d.fields

\* publishModel, lines 102-114: the ownerField is added to the fields when missing
AugmentFields(d) ==
    IF d.ownerField \notin {UNDEF, ""} /\ FindField(d.fields, d.ownerField) = 0
    THEN Append(d.fields, OwnerFieldDef(d))
    ELSE d.fields

Augment(d) ==
    [name |-> d.name,
     tableName |-> IF d.tableName \in {UNDEF, ""} THEN ToLowerCase(d.name) ELSE d.tableName,
     ownerField |-> d.ownerField,
     fields |-> AugmentFields(d),
     rbac |-> IF d.rbac = NoRbac THEN <<DefaultRbac>> ELSE d.rbac]

\* ------------------------------------------------------------------ SQL types

\* mapFieldTypeToSqlType
mapFieldTypeToSqlType(fieldType) ==
    CASE fieldType = "string" -> "TEXT"
      [] fieldType = "number" -> "FLOAT"
      [] fieldType = "boolean" -> "BOOLEAN"
      [] fieldType = "date" -> "TIMESTAMP WITH TIME ZONE"
      [] fieldType = "relation" -> "INTEGER"
      [] OTHER -> NULLV

\* information_schema.columns.data_type of a column declared with an SQL type
PgDataType(sqlType) ==
    CASE sqlType = "TEXT" -> "text"
      [] sqlType = "FLOAT" -> "double precision"
      [] sqlType = "BOOLEAN" -> "boolean"
      [] sqlType = "TIMESTAMP WITH TIME ZONE" -> "timestamp with time zone"
      [] sqlType = "INTEGER" -> "integer"

\* The keywords of mapDbTypeToFieldType that lowerType.includes() finds in a data_type
Includes(dbType) ==
    CASE dbType = "text" -> {"text"}
      [] dbType = "double precision" -> {"double"}
      [] dbType = "boolean" -> {"bool"}
      [] dbType = "timestamp with time zone" -> {"timestamp"}
      [] dbType = "integer" -> {"int"}

\* mapDbTypeToFieldType
mapDbTypeToFieldType(dbType) ==
    LET inc == Includes(dbType)
    IN  IF inc \cap {"text", "char", "uuid"} # {} THEN "string"
        ELSE IF inc \cap {"int", "float", "double", "numeric", "decimal"} # {} THEN "number"
        ELSE IF "bool" \in inc THEN "boolean"
        ELSE IF inc \cap {"timestamp", "date"} # {} THEN "date"
        ELSE NULLV

\* String(Number(value)) for the values used: null and '' convert to 0
NumberToString(value) == IF value \in {NULLV, ""} THEN "0" ELSE value

\* quoteDefaultValue throws BadRequest
quoteThrows(value, type) ==
    type \in {"number", "relation"} /\ value \notin {NULLV, ""} /\ ~IsNumeric(value)

\* quoteDefaultValue: the SQL text, as its tokens
quoteDefaultValue(value, type) ==
    CASE type \in {"string", "date"} -> <<"'", value, "'">>
      [] type = "boolean" -> IF ToLowerCase(value) = "true" THEN <<"TRUE">> ELSE <<"FALSE">>
      [] type \in {"number", "relation"} -> <<NumberToString(value)>>

\* getDefaultValueForType
getDefaultValueForType(type) ==
    CASE type = "string" -> ""
      [] type = "number" -> "0"
      [] type = "boolean" -> "false"
      [] type = "date" -> "1970-01-01T00:00:00Z"
      [] type = "relation" -> NULLV
      [] OTHER -> NULLV

HasDefault(field) == field.default \notin {UNDEF, NULLV, ""}

\* column_default as the catalog reports a DEFAULT given as sql on a column of dataType
PgColumnDefault(sql, dataType) ==
    CASE sql = NoSql -> NoSql
      [] dataType = "text" -> sql \o <<"::text">>
      [] dataType = "timestamp with time zone" -> sql \o <<"::timestamp with time zone">>
      [] dataType = "boolean" -> IF sql = <<"TRUE">> THEN <<"true">> ELSE <<"false">>
      [] OTHER -> sql

\* ------------------------------------------------------------------ DDL

\* mapFieldToSql throws BadRequest
mapFieldToSqlThrows(field) ==
    \/ ~isValidIdentifier(field.name)
    \/ mapFieldTypeToSqlType(field.type) = NULLV
    \/ field.type = "relation" /\ field.targetModel \in {UNDEF, ""}
    \/ field.type = "relation" /\ ~isValidIdentifier(field.targetModel)
    \/ HasDefault(field) /\ ~isValidDefaultValue(field.default, field.type)
    \/ HasDefault(field) /\ quoteThrows(field.default, field.type)

\* mapFieldToSql: the column definition
mapFieldToSql(field) ==
    [name |-> field.name,
     sqlType |-> mapFieldTypeToSqlType(field.type),
     references |-> IF field.type = "relation" THEN ToLowerCase(field.targetModel) ELSE UNDEF,
     notNull |-> field.required,
     dflt |-> IF HasDefault(field) THEN quoteDefaultValue(field.default, field.type)
              ELSE NoSql]

\* The catalog row of a column created from a column definition
ColumnOf(colDef) ==
    [column_name |-> colDef.name,
     data_type |-> PgDataType(colDef.sqlType),
     is_nullable |-> IF colDef.notNull THEN "NO" ELSE "YES",
     column_default |-> PgColumnDefault(colDef.dflt, PgDataType(colDef.sqlType))]

\* createTable: systemFields
SystemColumns ==
    << [column_name |-> "id", data_type |-> "integer", is_nullable |-> "NO",
        column_default |-> <<"nextval">>],
       [column_name |-> "createdAt", data_type |-> "timestamp with time zone",
        is_nullable |-> "YES", column_default |-> <<"CURRENT_TIMESTAMP">>],
       [column_name |-> "updatedAt", data_type |-> "timestamp with time zone",
        is_nullable |-> "YES", column_default |-> <<"CURRENT_TIMESTAMP">>] >>

ColumnNames(schema) == {schema[i].column_name : i \in 1..Len(schema)}

NoColDef ==
    [name |-> UNDEF, sqlType |-> UNDEF, references |-> UNDEF, notNull |-> FALSE,
     dflt |-> NoSql]

\* One statement of a schema change, with the migrationLog entry pushed with it
Stmt(op, col, colDef, sqlType, sql, logKind) ==
    [op |-> op, col |-> col, colDef |-> colDef, sqlType |-> sqlType, sql |-> sql,
     log |-> [kind |-> logKind, col |-> col]]

\* migrateTable: protectedColumns
ProtectedColumns(def) ==
    {"id", "createdAt", "updatedAt"} \cup
    (IF def.ownerField \in {UNDEF, ""} THEN {} ELSE {def.ownerField})

\* currentSchema.find((c) => c.column_name === name): index, or 0
FindColumn(schema, name) ==
    IF \E i \in 1..Len(schema) : schema[i].column_name = name
    THEN CHOOSE i \in 1..Len(schema) :
            /\ schema[i].column_name = name
            /\ \A j \in 1..(i - 1) : schema[j].column_name # name
    ELSE 0

\* migrateTable, lines 260-269: the ADD COLUMN statements
AddColumnStmts(def, schema) ==
    LET columnsToAdd ==
            SelectSeq(def.fields, LAMBDA f : f.name \notin ColumnNames(schema))
    IN  [i \in 1..Len(columnsToAdd) |->
            Stmt("ADD COLUMN", columnsToAdd[i].name, mapFieldToSql(columnsToAdd[i]),
                 UNDEF, NoSql, "add")]

\* migrateTable, lines 270-278: the DROP COLUMN statements
DropColumnStmts(def, schema) ==
    LET existingColumnNames == [i \in 1..Len(schema) |-> schema[i].column_name]
        columnsToDrop ==
            SelectSeq(existingColumnNames,
                      LAMBDA col : col \notin FieldNames(def.fields)
                                   /\ col \notin ProtectedColumns(def))
    IN  [i \in 1..Len(columnsToDrop) |->
            Stmt("DROP COLUMN", columnsToDrop[i], NoColDef, UNDEF, NoSql, "remove")]

\* migrateTable, lines 285-310: the type change of a kept column
RetypeStmts(field, existingColumn) ==
    LET currentFieldType == mapDbTypeToFieldType(existingColumn.data_type)
        newSqlType == mapFieldTypeToSqlType(field.type)
    IN  IF currentFieldType # NULLV /\ currentFieldType # field.type /\ newSqlType # NULLV
        THEN <<Stmt("ALTER TYPE", field.name, NoColDef, newSqlType, NoSql, "retype")>>
        ELSE << >>

\* migrateTable, lines 312-337: the nullability change of a kept column
NullabilityStmts(field, existingColumn) ==
    LET isCurrentlyNullable == existingColumn.is_nullable = "YES"
        shouldBeRequired == field.required = TRUE
        defaultValue == getDefaultValueForType(field.type)
    IN  IF shouldBeRequired /\ isCurrentlyNullable
        THEN (IF defaultValue # UNDEF
              THEN <<Stmt("UPDATE NULLS", field.name, NoColDef, UNDEF,
                          quoteDefaultValue(defaultValue, field.type), "backfill")>>
              ELSE << >>)
             \o <<Stmt("SET NOT NULL", field.name, NoColDef, UNDEF, NoSql, "require")>>
        ELSE IF ~shouldBeRequired /\ ~isCurrentlyNullable
        THEN <<Stmt("DROP NOT NULL", field.name, NoColDef, UNDEF, NoSql, "optional")>>
        ELSE << >>

\* migrateTable, lines 339-360: the default change of a kept column
DefaultStmts(field, existingColumn) ==
    LET newDefaultSql ==
            IF HasDefault(field) THEN quoteDefaultValue(field.default, field.type)
            ELSE NoSql
        currentDefaultSql == existingColumn.column_default
    IN  IF newDefaultSql # currentDefaultSql
        THEN IF newDefaultSql # NoSql
             THEN <<Stmt("SET DEFAULT", field.name, NoColDef, UNDEF, newDefaultSql,
                         "setdefault")>>
             ELSE IF currentDefaultSql # NoSql
             THEN <<Stmt("DROP DEFAULT", field.name, NoColDef, UNDEF, NoSql, "dropdefault")>>
             ELSE << >>
        ELSE << >>

\* migrateTable, lines 280-362: the statements of one turn of the loop over newFields
FieldStmts(def, schema, field) ==
    LET c == FindColumn(schema, field.name)
    IN  IF c # 0 /\ field.name \notin ProtectedColumns(def)
        THEN RetypeStmts(field, schema[c]) \o NullabilityStmts(field, schema[c])
             \o DefaultStmts(field, schema[c])
        ELSE << >>

RECURSIVE KeptColumnStmts(_, _, _)
KeptColumnStmts(def, schema, i) ==
    IF i > Len(def.fields) THEN << >>
    ELSE FieldStmts(def, schema, def.fields[i]) \o KeptColumnStmts(def, schema, i + 1)

\* migrateTable throws BadRequest while it builds its statements
migrateThrows(def, schema) ==
    \/ \E i \in 1..Len(def.fields) :
          /\ def.fields[i].name \notin ColumnNames(schema)
          /\ mapFieldToSqlThrows(def.fields[i])
    \/ \E i \in 1..Len(def.fields) :
          /\ def.fields[i].name \in ColumnNames(schema)
          /\ def.fields[i].name \notin ProtectedColumns(def)
          /\ HasDefault(def.fields[i])
          /\ quoteThrows(def.fields[i].default, def.fields[i].type)

\* A migration that drops columns before it adds any
migrationQueriesDropsFirst(def, schema) ==
    DropColumnStmts(def, schema) \o AddColumnStmts(def, schema)
    \o KeptColumnStmts(def, schema, 1)

\* migrateTable, lines 247-362: migrationQueries, each with its migrationLog entry
migrationQueries(def, schema) ==
    AddColumnStmts(def, schema) \o DropColumnStmts(def, schema)
    \o KeptColumnStmts(def, schema, 1)

\* createTable throws BadRequest before its transaction
createThrows(def) ==
    \/ Len(def.fields) = 0
    \/ \E i \in 1..Len(def.fields) : mapFieldToSqlThrows(def.fields[i])

\* createTable, lines 181-196: CREATE TABLE IF NOT EXISTS "tableName" (...)
createTableQueries(def) ==
    <<[op |-> "CREATE TABLE", col |-> UNDEF, colDef |-> NoColDef, sqlType |-> UNDEF,
       sql |-> NoSql, log |-> [kind |-> "create", col |-> UNDEF],
       cols |-> [i \in 1..Len(def.fields) |-> mapFieldToSql(def.fields[i])]]>>

\* ------------------------------------------------------------------ database

\* ALTER TABLE ... ALTER COLUMN "col": one attribute of the column changes
SetColumn(schema, col, key, value) ==
    [i \in 1..Len(schema) |->
        IF schema[i].column_name = col THEN [schema[i] EXCEPT ![key] = value]
        ELSE schema[i]]

\* A REFERENCES "table"("id") clause names a table that exists (or the table itself)
ReferenceOk(tbls, t, colDef) ==
    colDef.references = UNDEF \/ colDef.references \in DOMAIN tbls \cup {t}

\* The database executes one statement on table t: whether it succeeds, and the tables
ExecStmt(tbls, t, stmt) ==
    LET schema == tbls[t]
        put(newSchema) == [ok |-> TRUE, tables |-> [tbls EXCEPT ![t] = newSchema]]
        failed == [ok |-> FALSE, tables |-> tbls]
    IN  CASE stmt.op = "ADD COLUMN" ->
               IF stmt.col \in ColumnNames(schema) \/ ~ReferenceOk(tbls, t, stmt.colDef)
               THEN failed
               ELSE put(Append(schema, ColumnOf(stmt.colDef)))
          [] stmt.op = "DROP COLUMN" ->
               put(SelectSeq(schema, LAMBDA c : c.column_name # stmt.col))
          [] stmt.col \notin ColumnNames(schema) -> failed
          [] stmt.op = "ALTER TYPE" ->
               put(SetColumn(schema, stmt.col, "data_type", PgDataType(stmt.sqlType)))
          [] stmt.op = "UPDATE NULLS" -> put(schema)
          [] stmt.op = "SET NOT NULL" ->
               put(SetColumn(schema, stmt.col, "is_nullable", "NO"))
          [] stmt.op = "DROP NOT NULL" ->
               put(SetColumn(schema, stmt.col, "is_nullable", "YES"))
          [] stmt.op = "SET DEFAULT" ->
               put(SetColumn(schema, stmt.col, "column_default",
                             PgColumnDefault(stmt.sql,
                                             schema[FindColumn(schema, stmt.col)].data_type)))
          [] stmt.op = "DROP DEFAULT" ->
               put(SetColumn(schema, stmt.col, "column_default", NoSql))

\* CREATE TABLE IF NOT EXISTS "t" (system columns, cols)
ExecCreateTable(tbls, t, cols) ==
    LET names == {"id", "createdAt", "updatedAt"}
        clash == \/ \E i \in 1..Len(cols) : cols[i].name \in names
                 \/ \E i, j \in 1..Len(cols) : i # j /\ cols[i].name = cols[j].name
    IN  IF t \in DOMAIN tbls THEN [ok |-> TRUE, tables |-> tbls]
        ELSE IF clash \/ \E i \in 1..Len(cols) : ~ReferenceOk(tbls, t, cols[i])
        THEN [ok |-> FALSE, tables |-> tbls]
        ELSE [ok |-> TRUE,
              tables |-> [x \in DOMAIN tbls \cup {t} |->
                            IF x = t THEN SystemColumns \o [i \in 1..Len(cols) |-> ColumnOf(cols[i])]
                            ELSE tbls[x]]]

\* prisma.$transaction: the statements in order, all of them or none
RECURSIVE ExecAll(_, _, _, _)
ExecAll(tbls, t, stmts, i) ==
    IF i > Len(stmts) THEN [ok |-> TRUE, tables |-> tbls]
    ELSE LET r == IF stmts[i].op = "CREATE TABLE"
                  THEN ExecCreateTable(tbls, t, stmts[i].cols)
                  ELSE ExecStmt(tbls, t, stmts[i])
         IN  IF r.ok THEN ExecAll(r.tables, t, stmts, i + 1) ELSE r

\* A batch without a transaction: the statements before the failing one stay applied
TransactionNoRollback(tbls, t, stmts, failAt) ==
    IF failAt = 0 THEN ExecAll(tbls, t, stmts, 1)
    ELSE [ok |-> FALSE,
          tables |-> ExecAll(tbls, t, SubSeq(stmts, 1, failAt - 1), 1).tables]

\* prisma.$transaction([...]): all the statements or none
\* (failAt # 0: the database fails the statement at that position)
Transaction(tbls, t, stmts, failAt) ==
    LET r == IF failAt = 0 THEN ExecAll(tbls, t, stmts, 1)
             ELSE [ok |-> FALSE,
                   tables |-> ExecAll(tbls, t, SubSeq(stmts, 1, failAt - 1), 1).tables]
    IN  IF r.ok THEN r ELSE [ok |-> FALSE, tables |-> tbls]

\* getTableSchema: the catalog rows of the table, none when it does not exist
getTableSchema(tbls, t) == IF t \in DOMAIN tbls THEN tbls[t] ELSE << >>

\* DROP TABLE IF EXISTS "t" CASCADE
DropTable(f, t) == [x \in DOMAIN f \ {t} |-> f[x]]

Put(f, k, v) == [x \in DOMAIN f \cup {k} |-> IF x = k THEN v ELSE f[x]]

\* ------------------------------------------------------------------ registry

\* A definition document as publishModel writes it
Doc(def) == [json |-> TRUE, def |-> def]

\* ModelDefinitionCacheService.loadModel
\* (readFileSync or JSON.parse throws, or name.toLowerCase() of an absent name: the
\* catch logs and the cache stays)
loadModel(reg, dir, modelName) ==
    IF modelName \notin DOMAIN dir \/ ~dir[modelName].json THEN reg
    ELSE LET modelDef == dir[modelName].def
         IN  IF modelDef.tableName \in {UNDEF, ""}
             THEN IF modelDef.name = UNDEF THEN reg
                  ELSE Put(reg, modelName,
                           [modelDef EXCEPT !.tableName = ToLowerCase(modelDef.name)])
             ELSE Put(reg, modelName, modelDef)

\* A removeModel that evicts nothing
removeModelNothing(reg, modelName) == reg

\* ModelDefinitionCacheService.removeModel
removeModel(reg, modelName) == [x \in DOMAIN reg \ {modelName} |-> reg[x]]

\* The watcher of initializeWatcher: whether it is modelled in this run, the file events
\* it has still to hand to its callbacks, the event handled last, the external edits
NoWatch == [on |-> FALSE, queue |-> << >>, handled |-> << >>, edits |-> 0]

\* A file of the models directory is written or removed: the watcher queues the event
\* (awaitWriteFinish: an event alike the one queued last collapses into it)
Notify(w, dir, kind, modelName) ==
    LET e == [kind |-> IF kind = "write"
                       THEN (IF modelName \in DOMAIN dir THEN "change" ELSE "add")
                       ELSE kind,
              name |-> modelName]
    IN  IF ~w.on \/ (Len(w.queue) > 0 /\ w.queue[Len(w.queue)] = e) THEN w
        ELSE [w EXCEPT !.queue = Append(@, e)]

\* ------------------------------------------------------------------ inputs

MaxOps == 3        \* publishModel / deleteModel calls in one run
MaxFields == 2     \* fields in a submitted definition

Field(name, type, required, default, targetModel) ==
    [name |-> name, type |-> type, required |-> required, default |-> default,
     targetModel |-> targetModel]

\* The well-formed field definitions an operator submits, in the order it lists them
FieldList ==
    << Field("a", "string", FALSE, UNDEF, UNDEF),
       Field("a", "number", TRUE, UNDEF, UNDEF),
       Field("b", "string", FALSE, "x", UNDEF),
       Field("b", "number", FALSE, "5", UNDEF),
       Field("c", "boolean", TRUE, "true", UNDEF),
       Field("c", "date", FALSE, UNDEF, UNDEF),
       Field("r", "relation", FALSE, UNDEF, "Q"),
       Field("o", "number", FALSE, UNDEF, UNDEF) >>

\* The ill-formed ones: a bad name, a bad relation target, an unknown relation target,
\* an unsafe default, an ownerField of the wrong type, a name used twice up to case
BadFieldLists ==
    { <<Field("a-b", "string", FALSE, UNDEF, UNDEF)>>,
      <<Field("r", "relation", FALSE, UNDEF, "p;")>>,
      <<Field("r", "relation", FALSE, UNDEF, "T")>>,
      <<Field("b", "string", FALSE, "x;", UNDEF)>>,
      <<Field("o", "string", FALSE, UNDEF, UNDEF)>>,
      <<Field("r", "relation", FALSE, UNDEF, "T"), Field("a-b", "string", FALSE, UNDEF, UNDEF)>>,
      <<Field("a", "string", FALSE, UNDEF, UNDEF), Field("A", "string", FALSE, UNDEF, UNDEF)>> }

RECURSIVE InOrder(_)
InOrder(S) ==
    IF S = {} THEN << >>
    ELSE LET m == CHOOSE x \in S : \A y \in S : x <= y
         IN  <<FieldList[m]>> \o InOrder(S \ {m})

\* Field lists of at most MaxFields fields with different names
FieldSeqs ==
    { InOrder(S) : S \in { T \in SUBSET (1..Len(FieldList)) :
                              /\ Cardinality(T) <= MaxFields
                              /\ \A x, y \in T :
                                    x # y => FieldList[x].name # FieldList[y].name } }

Definition(name, tableName, ownerField, fields, rbac) ==
    [name |-> name, tableName |-> tableName, ownerField |-> ownerField,
     fields |-> fields, rbac |-> rbac]

\* A definition every run can publish first: the target of the relation fields
BaseDefinition ==
    Definition("Q", UNDEF, UNDEF, <<Field("a", "string", FALSE, UNDEF, UNDEF)>>, NoRbac)

\* The definitions an operator submits
GoodDefinitions ==
    { Definition("P", t, o, fs, NoRbac) : t \in {UNDEF, "t"}, o \in {UNDEF, "o"},
                                           fs \in FieldSeqs }

BadDefinitions ==
    { Definition(n, t, o, <<FieldList[1]>>, NoRbac) :
        n \in {"P", "1p", "p;", "User", ""}, t \in {UNDEF, "p;", ""},
        o \in {UNDEF, "a-b", ""} }
    \cup { Definition("P", UNDEF, o, fs, NoRbac) : o \in {UNDEF, "o", "O"}, fs \in BadFieldLists }

\* Definitions of models whose names or table names meet
CoreDefinitions ==
    { Definition(n, t, UNDEF, <<f>>, NoRbac) :
        n \in {"P", "p"}, t \in {UNDEF, "t"}, f \in {FieldList[1], FieldList[4]} }

\* Definitions of two models that share the table "p"
FaultDefinitions == {d \in CoreDefinitions : d.tableName = UNDEF}

\* The definitions of one run
Pools ==
    {{BaseDefinition, d} : d \in GoodDefinitions \cup BadDefinitions}
    \cup {{d, e} : d, e \in CoreDefinitions}

\* ------------------------------------------------------------------ calls

EmptyDef == Definition("", UNDEF, UNDEF, << >>, NoRbac)

Idle ==
    [pc |-> "idle", op |-> "none", input |-> EmptyDef, def |-> EmptyDef,
     pre |-> [tables |-> << >>, files |-> << >>, cache |-> << >>],
     stmts |-> << >>, message |-> UNDEF, faults |-> {}]

NoCall ==
    [op |-> "none", input |-> EmptyDef, def |-> EmptyDef, stage |-> "none",
     status |-> "none", message |-> UNDEF, changes |-> << >>, ddl |-> << >>, faults |-> {},
     pre |-> [tables |-> << >>, files |-> << >>, cache |-> << >>]]

Snapshot == [tables |-> tables, files |-> files, cache |-> cache]

\* The call returns: status "ok" or the exception thrown
Return(c, stage, status, message, stmts, faults) ==
    /\ last' = [op |-> c.op, input |-> c.input, def |-> c.def, stage |-> stage,
                status |-> status,
                message |-> message,
                changes |-> IF message = "updated"
                            THEN [i \in 1..Len(stmts) |-> stmts[i].log] ELSE << >>,
                ddl |-> stmts, faults |-> faults, pre |-> c.pre]
    /\ prev' = [op |-> last.op, input |-> last.input, status |-> last.status,
                faults |-> last.faults]
    /\ call' = Idle

\* rows and serial follow the tables that exist
FollowTables(newTables) ==
    /\ rows' = [t \in DOMAIN newTables |-> IF t \in DOMAIN rows THEN rows[t] ELSE {}]
    /\ serial' = [t \in DOMAIN newTables |-> IF t \in DOMAIN serial THEN serial[t] ELSE 0]

\* ------------------------------------------------------------------ publishModel

\* publishModel, lines 127-130: write the document, reload the registry, return
FinishPublish(c, newTables, stmts, faults) ==
    LET wrote == "write" \notin faults
        newFiles == IF wrote THEN Put(files, c.def.name, Doc(c.def)) ELSE files
    IN  /\ tables' = newTables
        /\ FollowTables(newTables)
        /\ files' = newFiles
        /\ watch' = IF wrote THEN Notify(watch, files, "write", c.def.name) ELSE watch
        /\ cache' = IF wrote /\ "read" \notin faults
                    THEN loadModel(cache, newFiles, c.def.name) ELSE cache
        /\ Return(c, IF wrote THEN "done" ELSE "write", IF wrote THEN "ok" ELSE "Internal",
                  c.message, stmts, faults)

\* @UseGuards(JwtAuthGuard) of ModelDefinitionsController: the request carries the token
\* of a principal, whatever its role
JwtAuthGuard(user) == user.sub # 0 /\ user.role # ""

\* publishModel, lines 88-114: validation and defaults, up to the catalog query
PublishStart(d) ==
    /\ JwtAuthGuard(caller)
    /\ call.pc = "idle"
    /\ nops < MaxOps
    /\ nops' = nops + 1
    /\ LET v == validateModelDefinition(d, cache)
           c == [Idle EXCEPT !.op = "publish", !.input = d, !.pre = Snapshot]
       IN  IF v # "ok"
           THEN /\ Return(c, "validation", v, UNDEF, << >>, {})
                /\ UNCHANGED <<tables, rows, serial, files, cache>>
           ELSE /\ call' = [c EXCEPT !.pc = "schema", !.def = Augment(d)]
                /\ UNCHANGED <<tables, rows, serial, files, cache, last, prev>>
    /\ UNCHANGED <<pool, faulty, resp, listing, watch, parked, guarded, caller>>

\* publishModel, lines 116-125: the catalog query answers; createTable or migrateTable
\* builds its statements (a migration without statements returns at once)
PublishSchema(fault, wfault) ==
    /\ call.pc = "schema"
    /\ LET faults == {fault, wfault} \ {"none"}
           currentSchema == IF fault = "introspect" THEN << >>
                            ELSE getTableSchema(tables, call.def.tableName)
           tableExists == Len(currentSchema) > 0
           queries == migrationQueries(call.def, currentSchema)
       IN  IF ~tableExists
           THEN IF createThrows(call.def)
                THEN /\ Return(call, "schema", "BadRequest", UNDEF, << >>, {fault} \ {"none"})
                     /\ UNCHANGED <<tables, rows, serial, files, cache, watch>>
                ELSE /\ call' = [call EXCEPT !.pc = "tx",
                                             !.stmts = createTableQueries(call.def),
                                             !.message = "created",
                                             !.faults = {fault} \ {"none"}]
                     /\ UNCHANGED <<tables, rows, serial, files, cache, last, prev, watch>>
           ELSE IF migrateThrows(call.def, currentSchema)
                THEN /\ Return(call, "schema", "BadRequest", UNDEF, << >>, {})
                     /\ UNCHANGED <<tables, rows, serial, files, cache, watch>>
                ELSE IF queries = << >>
                THEN FinishPublish([call EXCEPT !.message = "uptodate"], tables, << >>,
                                   {wfault} \ {"none"})
                ELSE /\ call' = [call EXCEPT !.pc = "tx", !.stmts = queries,
                                             !.message = "updated"]
                     /\ UNCHANGED <<tables, rows, serial, files, cache, last, prev, watch>>
    /\ UNCHANGED <<nops, pool, faulty, resp, listing, parked, guarded, caller>>

\* createTable, lines 219-240, and migrateTable, lines 371-392: the transaction
\* commits or fails; publishModel goes on after a commit
PublishTx(fault) ==
    /\ call.pc = "tx"
    /\ call.op = "publish"
    /\ LET r == Transaction(tables, call.def.tableName, call.stmts,
                            IF fault = "ddl" THEN Len(call.stmts) ELSE 0)
           faults == call.faults \cup ({fault} \ {"none"})
       IN  IF ~r.ok
           THEN /\ tables' = r.tables
                /\ FollowTables(r.tables)
                /\ Return(call, "tx", "Internal", UNDEF, << >>, faults)
                /\ UNCHANGED <<files, cache, watch>>
           ELSE FinishPublish(call, r.tables, call.stmts, faults)
    /\ UNCHANGED <<nops, pool, faulty, resp, listing, parked, guarded, caller>>

\* ------------------------------------------------------------------ deleteModel

\* deleteModel, lines 134-145: the checks before the DROP TABLE
DeleteStart(modelName) ==
    /\ JwtAuthGuard(caller)
    /\ call.pc = "idle"
    /\ nops < MaxOps
    /\ nops' = nops + 1
    /\ LET c == [Idle EXCEPT !.op = "delete", !.input.name = modelName, !.pre = Snapshot]
       IN  IF ~isValidIdentifier(modelName)
           THEN Return(c, "validation", "BadRequest", UNDEF, << >>, {})
           ELSE IF modelName \notin DOMAIN files
           THEN Return(c, "validation", "NotFound", UNDEF, << >>, {})
           ELSE /\ call' = [c EXCEPT !.pc = "drop"]
                /\ UNCHANGED <<last, prev>>
    /\ UNCHANGED <<tables, rows, serial, files, cache, pool, faulty, resp, listing, watch, parked, guarded, caller>>

DropTableStmt ==
    [op |-> "DROP TABLE", col |-> UNDEF, colDef |-> NoColDef, sqlType |-> UNDEF,
     sql |-> NoSql, log |-> [kind |-> "drop", col |-> UNDEF]]

\* deleteModel, lines 147-169: DROP TABLE, unlink the document, evict the entry
DeleteDrop(fault) ==
    /\ call.pc = "drop"
    /\ LET modelName == call.input.name
           tableName == ToLowerCase(modelName)
           newTables == DropTable(tables, tableName)
       IN  IF fault = "ddl"
           THEN /\ Return(call, "tx", "Internal", UNDEF, << >>, {fault})
                /\ UNCHANGED <<tables, rows, serial, files, cache, watch>>
           ELSE IF fault = "unlink"
           THEN /\ tables' = newTables
                /\ FollowTables(newTables)
                /\ Return(call, "write", "Internal", UNDEF, <<DropTableStmt>>, {fault})
                /\ UNCHANGED <<files, cache, watch>>
           ELSE /\ tables' = newTables
                /\ FollowTables(newTables)
                /\ files' = DropTable(files, modelName)
                /\ watch' = Notify(watch, files, "unlink", modelName)
                /\ cache' = removeModel(cache, modelName)
                /\ Return(call, "done", "ok", "deleted", <<DropTableStmt>>, {})
    /\ UNCHANGED <<nops, pool, faulty, resp, listing, parked, guarded, caller>>

\* ------------------------------------------------------------------ values of rows

Num(n) == [t |-> "number", n |-> n, s |-> ""]
Str(x) == [t |-> "string", n |-> 0, s |-> x]
Bool(b) == [t |-> "boolean", n |-> IF b THEN 1 ELSE 0, s |-> ""]
Null == [t |-> "null", n |-> 0, s |-> ""]
Now == [t |-> "date", n |-> 0, s |-> "now"]
NaN == [t |-> "NaN", n |-> 0, s |-> ""]

\* Number(value)
ToNumber(v) ==
    CASE v.t = "number" -> v
      [] v.t = "boolean" -> Num(v.n)
      [] v.t = "null" -> Num(0)
      [] v.t = "string" ->
           IF v.s = "" THEN Num(0)
           ELSE IF v.s = "5" THEN Num(5)
           ELSE IF v.s = "7" THEN Num(7)
           ELSE NaN
      [] OTHER -> NaN

\* Boolean(value)
ToBoolean(v) ==
    CASE v.t = "number" -> Bool(v.n # 0)
      [] v.t = "boolean" -> v
      [] v.t = "string" -> Bool(v.s # "")
      [] OTHER -> Bool(FALSE)

\* ------------------------------------------------------------------ DynamicApiService

\* validateAndSanitizeData: one turn of the loop over fields
SanitizeField(data, field) ==
    LET key == field.name
        value == data[key]
    IN  IF key \notin DOMAIN data THEN << >>
        ELSE IF value = Null \/ value = Str("") THEN << >>
        ELSE IF field.type \in {"number", "relation"}
        THEN (IF ToNumber(value) = NaN THEN << >> ELSE <<[key |-> key, value |-> ToNumber(value)]>>)
        ELSE IF field.type = "boolean"
        THEN <<[key |-> key, value |-> ToBoolean(value)]>>
        ELSE <<[key |-> key, value |-> value]>>

RECURSIVE SanitizeFrom(_, _, _)
SanitizeFrom(data, fields, i) ==
    IF i > Len(fields) THEN << >>
    ELSE SanitizeField(data, fields[i]) \o SanitizeFrom(data, fields, i + 1)

\* Object built from entries: a later entry of a key replaces the earlier one
FromEntries(entries) ==
    [k \in {entries[i].key : i \in 1..Len(entries)} |->
        LET i == CHOOSE i \in 1..Len(entries) :
                    /\ entries[i].key = k
                    /\ \A j \in (i + 1)..Len(entries) : entries[j].key # k
        IN  entries[i].value]

\* A sanitizer without the safelist: every key of the payload is kept
validateAndSanitizeDataAll(data, fields) == data

\* validateAndSanitizeData: sanitizedData
validateAndSanitizeData(data, fields) == FromEntries(SanitizeFrom(data, fields, 1))

\* The row with an id, as a set of at most one row
RowsWithId(tableRows, id) == {r \in tableRows : r["id"] = Num(id)}

\* INSERT INTO table (columns) VALUES (...) RETURNING *: the row, when the columns
\* exist and no NOT NULL column is left without a value
InsertedRow(schema, id, data) ==
    [c \in ColumnNames(schema) |->
        IF c \in DOMAIN data THEN data[c]
        ELSE IF c = "id" THEN Num(id)
        ELSE IF c \in {"createdAt", "updatedAt"} THEN Now
        ELSE Null]

InsertFails(schema, data) ==
    \/ \E k \in DOMAIN data : k \notin ColumnNames(schema)
    \/ \E i \in 1..Len(schema) :
          /\ schema[i].is_nullable = "NO"
          /\ schema[i].column_default = NoSql
          /\ schema[i].column_name \notin DOMAIN data

\* An owner assignment that keeps a value the payload supplied
forceOwnerIfAbsent(sanitizedData, model, ownerId) ==
    IF /\ model.ownerField \notin {UNDEF, ""}
       /\ ownerId # << >>
       /\ model.ownerField \notin DOMAIN sanitizedData
    THEN Put(sanitizedData, model.ownerField, Num(ownerId[1]))
    ELSE sanitizedData

\* create, lines 90-92: sanitizedData[model.ownerField] = ownerId
forceOwner(sanitizedData, model, ownerId) ==
    IF model.ownerField \notin {UNDEF, ""} /\ ownerId # << >>
    THEN Put(sanitizedData, model.ownerField, Num(ownerId[1]))
    ELSE sanitizedData

\* The table the SQL of DynamicApiService names: the identifier is not quoted
SqlTable(model) ==
    ToLowerCase(IF model.tableName \in {UNDEF, ""} THEN ToLowerCase(model.name)
                ELSE model.tableName)

\* DynamicApiService.create: status, the columns of the INSERT, the row, the rows after
\* (ownerId is <<n>>, or << >> when the caller passes none)
create(model, data, ownerId, tableRows, schema, nextId) ==
    LET sanitizedData ==
            forceOwner(validateAndSanitizeData(data, model.fields), model, ownerId)
        row == InsertedRow(schema, nextId, sanitizedData)
    IN  IF DOMAIN sanitizedData = {}
        THEN [status |-> "BadRequest", written |-> {}, row |-> << >>, rows |-> tableRows,
              sql |-> FALSE]
        ELSE IF InsertFails(schema, sanitizedData)
        THEN [status |-> "BadRequest", written |-> {}, row |-> << >>, rows |-> tableRows,
              sql |-> TRUE]
        ELSE [status |-> "ok", written |-> DOMAIN sanitizedData, row |-> row,
              rows |-> tableRows \cup {row}, sql |-> TRUE]

\* DynamicApiService.findOne
findOne(tableRows, id) ==
    IF RowsWithId(tableRows, id) = {} THEN [status |-> "NotFound", row |-> << >>]
    ELSE [status |-> "ok", row |-> CHOOSE r \in RowsWithId(tableRows, id) : TRUE]

\* DynamicApiService.update
update(model, id, data, tableRows, schema) ==
    LET sanitizedData ==
            Put(validateAndSanitizeData(data, model.fields), "updatedAt", Now)
        old == RowsWithId(tableRows, id)
        new == {[c \in DOMAIN r |-> IF c \in DOMAIN sanitizedData THEN sanitizedData[c]
                                     ELSE r[c]] : r \in old}
    IN  IF Cardinality(DOMAIN sanitizedData) <= 1
        THEN [status |-> "BadRequest", written |-> {}, row |-> << >>, rows |-> tableRows,
              sql |-> FALSE]
        ELSE IF \E k \in DOMAIN sanitizedData : k \notin ColumnNames(schema)
        THEN [status |-> "BadRequest", written |-> {}, row |-> << >>, rows |-> tableRows,
              sql |-> TRUE]
        ELSE IF old = {}
        THEN [status |-> "BadRequest", written |-> {}, row |-> << >>, rows |-> tableRows,
              sql |-> TRUE]
        ELSE [status |-> "ok", written |-> DOMAIN sanitizedData,
              row |-> CHOOSE r \in new : TRUE, rows |-> (tableRows \ old) \cup new,
              sql |-> TRUE]

\* DynamicApiService.delete
delete(id, tableRows) ==
    IF findOne(tableRows, id).status # "ok"
    THEN [status |-> "NotFound", written |-> {}, row |-> << >>, rows |-> tableRows,
          sql |-> FALSE]
    ELSE [status |-> "ok", written |-> {}, row |-> << >>,
          rows |-> tableRows \ RowsWithId(tableRows, id), sql |-> TRUE]

\* String.prototype.trim
Trim(s) ==
    LET cs == Chars(s)
        keep == {i \in 1..Len(cs) : cs[i] # " "}
        lo == CHOOSE i \in keep : \A j \in keep : i <= j
        hi == CHOOSE i \in keep : \A j \in keep : j <= i
    IN  IF keep = {} THEN ""
        ELSE CHOOSE m \in AllNames : Chars(m) = SubSeq(cs, lo, hi)

\* value::text of a column value, for the values the rows hold
ValueText(v) ==
    CASE v.t = "string" -> v.s
      [] v.t = "number" /\ v.n = 1 -> "1"
      [] v.t = "number" /\ v.n = 2 -> "2"
      [] v.t = "number" /\ v.n = 5 -> "5"
      [] v.t = "number" /\ v.n = 7 -> "7"

\* text ILIKE '%' + search + '%'
ILike(text, search) ==
    LET cs == [i \in 1..Len(Chars(text)) |-> LowerChar(Chars(text)[i])]
        ps == [i \in 1..Len(Chars(search)) |-> LowerChar(Chars(search)[i])]
    IN  \E k \in 0..(Len(cs) - Len(ps)) : SubSeq(cs, k + 1, k + Len(ps)) = ps

\* Number(options.page) || dflt, for a query parameter that is absent (<< >>) or
\* holds the digits of n (<<n>>)
NumberOr(param, dflt) == IF param = << >> \/ param[1] = 0 THEN dflt ELSE param[1]

\* findAll, lines 128-146: the rows the WHERE clause keeps
WhereRows(model, options, tableRows) ==
    LET search == IF options.search = UNDEF THEN "" ELSE Trim(options.search)
        searchableFields ==
            SelectSeq(model.fields, LAMBDA field : field.type \in {"string", "number"})
    IN  IF search = "" \/ Len(searchableFields) = 0 THEN tableRows
        ELSE {r \in tableRows :
                \E i \in 1..Len(searchableFields) :
                    LET v == r[searchableFields[i].name]
                    IN  v # Null /\ ILike(ValueText(v), search)}

\* ORDER BY "id" DESC
RECURSIVE OrderByIdDesc(_)
OrderByIdDesc(S) ==
    IF S = {} THEN << >>
    ELSE LET m == CHOOSE r \in S : \A q \in S : q["id"].n <= r["id"].n
         IN  <<m>> \o OrderByIdDesc(S \ {m})

\* LIMIT limit OFFSET offset on the ordered rows
LimitOffset(seq, limit, offset) ==
    SubSeq(seq, offset + 1, IF offset + limit < Len(seq) THEN offset + limit ELSE Len(seq))

\* A page read whose offset is page * limit
dataQueryPageAsOffset(model, options, tableRows) ==
    LET page == NumberOr(options.page, 1)
        limit == NumberOr(options.limit, 10)
    IN  LimitOffset(OrderByIdDesc(WhereRows(model, options, tableRows)), limit,
                    page * limit)

\* findAll, line 148: dataQuery on the rows the statement sees
dataQuery(model, options, tableRows) ==
    LET page == NumberOr(options.page, 1)
        limit == NumberOr(options.limit, 10)
        offset == (page - 1) * limit
    IN  LimitOffset(OrderByIdDesc(WhereRows(model, options, tableRows)), limit, offset)

\* findAll, line 149: countQuery on the rows the statement sees
countQuery(model, options, tableRows) ==
    Cardinality(WhereRows(model, options, tableRows))

\* DynamicApiService.findAll: { data, total }, with the rows each of the two
\* statements of the transaction sees
findAll(model, options, dataRows, countRows) ==
    [data |-> dataQuery(model, options, dataRows),
     total |-> countQuery(model, options, countRows)]

\* ------------------------------------------------------------------ RbacGuard

\* canActivate, lines 45-53: the permission a method requires
requiredPermission(method) ==
    CASE method = "POST" -> "create"
      [] method = "GET" -> "read"
      [] method \in {"PUT", "PATCH"} -> "update"
      [] method = "DELETE" -> "delete"
      [] OTHER -> UNDEF

\* canActivate, line 57: modelDef.rbac?.[userRole] || []
rolePermissions(modelDef, userRole) ==
    IF modelDef.rbac = NoRbac THEN {}
    ELSE IF userRole \in DOMAIN modelDef.rbac[1] THEN modelDef.rbac[1][userRole]
    ELSE {}

\* A role check that only asks whether the policy lists the role at all
hasRolePermissionAnyEntry(modelDef, userRole, permission) ==
    rolePermissions(modelDef, userRole) # {}

\* canActivate, lines 59-61
hasRolePermission(modelDef, userRole, permission) ==
    \/ permission \in rolePermissions(modelDef, userRole)
    \/ "all" \in rolePermissions(modelDef, userRole)

\* canActivate, lines 68-72: the ownership check applies
ownershipApplies(modelDef, userRole, permission) ==
    /\ permission \in {"update", "delete"}
    /\ modelDef.ownerField \notin {UNDEF, ""}
    /\ userRole # "Admin"

\* An ownership test that compares the record's id with the principal's id
notOwnerById(record, modelDef, user) == record["id"] # Num(user.sub)

\* canActivate, lines 84-86: ownerValue !== user.sub
notOwner(record, modelDef, user) ==
    \/ modelDef.ownerField \notin DOMAIN record
    \/ record[modelDef.ownerField] # Num(user.sub)

\* RbacGuard.canActivate on an /api route: "Allow", or the exception thrown
canActivate(user, method, modelName, recordId, reg, db) ==
    LET permission == requiredPermission(method)
        modelDef == reg[modelName]
        found == findOne(db[SqlTable(modelDef)], recordId)
    IN  IF user.role = "" \/ user.sub = 0 THEN "Forbidden"
        ELSE IF permission = UNDEF THEN "Allow"
        ELSE IF modelName \notin DOMAIN reg THEN "NotFound"
        ELSE IF ~hasRolePermission(modelDef, user.role, permission) THEN "Forbidden"
        ELSE IF ownershipApplies(modelDef, user.role, permission)
        THEN IF recordId = 0 THEN "BadRequest"
             ELSE IF found.status # "ok" THEN "NotFound"
             ELSE IF notOwner(found.row, modelDef, user) THEN "Forbidden"
             ELSE "Allow"
        ELSE "Allow"

\* ------------------------------------------------------------------ /api requests

MaxRows == 1       \* rows inserted into one table in one run

\* request.user as JwtAuthGuard sets it: { sub, role }
Principals ==
    { [sub |-> 1, role |-> "Admin"], [sub |-> 2, role |-> "Manager"],
      [sub |-> 3, role |-> "Viewer"], [sub |-> 4, role |-> "Guest"] }

\* The request bodies: objects with some of the keys a, o, id, z
Payloads ==
    { << >>,
      [a |-> Str("x")],
      [a |-> Str("")],
      [o |-> Str("7")],
      [a |-> Str("x"), o |-> Num(1), id |-> Num(7), z |-> Str("x")],
      [id |-> Num(7)] }

CustomRbac ==
    [Admin |-> {"read"}, Manager |-> {"all"}, Viewer |-> {"create", "update", "delete"}]

\* The definitions published before the requests
ApiDefinitions ==
    { Definition("P", UNDEF, o, fs, r) :
        o \in {UNDEF, "o"}, fs \in {<<FieldList[1]>>}, r \in {NoRbac, <<CustomRbac>>} }

NoResp ==
    [method |-> "none", user |-> [sub |-> 0, role |-> ""], model |-> "", id |-> 0,
     data |-> << >>, decision |-> "none", status |-> "none", executed |-> FALSE,
     written |-> {}, row |-> << >>, pre |-> {}, target |-> {}, list |-> << >>,
     idents |-> {}]

\* A controller method of DynamicApiController: the result of the service call
Handle(method, model, user, id, data) ==
    LET t == SqlTable(model)
    IN  CASE method = "POST" -> create(model, data, <<user.sub>>, rows[t], tables[t], serial[t] + 1)
          [] method = "PUT" -> update(model, id, data, rows[t], tables[t])
          [] method = "DELETE" -> delete(id, rows[t])
          [] method = "GET" ->
               [status |-> findOne(rows[t], id).status, written |-> {},
                row |-> findOne(rows[t], id).row, rows |-> rows[t], sql |-> TRUE]

\* The identifiers a service call puts into its SQL text with Prisma.raw: the table
\* name, and the keys of sanitizedData as column names of an INSERT or UPDATE
sqlIdentifiers(method, model, user, data) ==
    LET tableName == IF model.tableName \in {UNDEF, ""} THEN ToLowerCase(model.name)
                     ELSE model.tableName
        columns ==
            CASE method = "POST" ->
                   DOMAIN forceOwner(validateAndSanitizeData(data, model.fields), model,
                                     <<user.sub>>)
              [] method = "PUT" ->
                   DOMAIN Put(validateAndSanitizeData(data, model.fields), "updatedAt", Now)
              [] OTHER -> {}
    IN  {tableName} \cup columns

\* One request on /api/:modelName(/:id): RbacGuard.canActivate, then the controller
Request(user, method, modelName, id, data) ==
    /\ call.pc = "idle"
    /\ modelName \in DOMAIN cache
    /\ SqlTable(cache[modelName]) \in DOMAIN tables
    /\ LET model == cache[modelName]
           t == SqlTable(model)
           decision == canActivate(user, method, modelName, id, cache, rows)
           r == Handle(method, model, user, id, data)
           base == [NoResp EXCEPT !.method = method, !.user = user, !.model = modelName,
                                  !.id = id, !.data = data, !.decision = decision,
                                  !.pre = rows[t], !.target = RowsWithId(rows[t], id)]
       IN  IF decision # "Allow"
           THEN /\ resp' = [base EXCEPT !.status = decision]
                /\ UNCHANGED <<rows, serial>>
           ELSE /\ resp' = [base EXCEPT !.status = r.status, !.executed = TRUE,
                                        !.written = r.written, !.row = r.row,
                                        !.idents = IF r.sql
                                                   THEN sqlIdentifiers(method, model, user, data)
                                                   ELSE {}]
                /\ rows' = [rows EXCEPT ![t] = r.rows]
                /\ serial' = IF method = "POST" /\ r.status = "ok"
                             THEN [serial EXCEPT ![t] = @ + 1] ELSE serial
    /\ UNCHANGED <<tables, files, cache, call, last, prev, nops, pool, faulty, listing, watch, parked, guarded, caller>>

\* No request between its guard and its handler
NoGuarded ==
    [pc |-> "idle", user |-> [sub |-> 0, role |-> ""], method |-> "none", model |-> "",
     id |-> 0, data |-> << >>]

\* RbacGuard.canActivate of one PUT or DELETE request: it throws, or it returns true
\* and the framework will call the controller method once the event loop gets to it
GuardRequest(user, method, modelName, id, data) ==
    /\ call.pc = "idle"
    /\ guarded.pc = "idle"
    /\ modelName \in DOMAIN cache
    /\ SqlTable(cache[modelName]) \in DOMAIN tables
    /\ LET t == SqlTable(cache[modelName])
           decision == canActivate(user, method, modelName, id, cache, rows)
       IN  IF decision # "Allow"
           THEN /\ resp' = [NoResp EXCEPT !.method = method, !.user = user,
                                          !.model = modelName, !.id = id, !.data = data,
                                          !.decision = decision, !.status = decision,
                                          !.pre = rows[t],
                                          !.target = RowsWithId(rows[t], id)]
                /\ UNCHANGED guarded
           ELSE /\ guarded' = [pc |-> "allowed", user |-> user, method |-> method,
                               model |-> modelName, id |-> id, data |-> data]
                /\ UNCHANGED resp
    /\ UNCHANGED <<tables, rows, serial, files, cache, call, last, prev, nops, pool, faulty,
                   listing, watch, parked, caller>>

\* The controller method of the request the guard allowed: the service call on the rows
\* as they are now
RunHandler ==
    /\ guarded.pc = "allowed"
    /\ guarded.model \in DOMAIN cache
    /\ SqlTable(cache[guarded.model]) \in DOMAIN tables
    /\ LET model == cache[guarded.model]
           t == SqlTable(model)
           r == Handle(guarded.method, model, guarded.user, guarded.id, guarded.data)
       IN  /\ resp' = [NoResp EXCEPT !.method = guarded.method, !.user = guarded.user,
                                     !.model = guarded.model, !.id = guarded.id,
                                     !.data = guarded.data, !.decision = "Allow",
                                     !.pre = rows[t],
                                     !.target = RowsWithId(rows[t], guarded.id),
                                     !.status = r.status, !.executed = TRUE,
                                     !.written = r.written, !.row = r.row,
                                     !.idents = IF r.sql
                                                THEN sqlIdentifiers(guarded.method, model,
                                                                    guarded.user, guarded.data)
                                                ELSE {}]
           /\ rows' = [rows EXCEPT ![t] = r.rows]
    /\ guarded' = NoGuarded
    /\ UNCHANGED <<tables, serial, files, cache, call, last, prev, nops, pool, faulty,
                   listing, watch, parked, caller>>

\* No findAll call in flight
NoListing ==
    [pc |-> "idle", user |-> [sub |-> 0, role |-> ""], model |-> "",
     options |-> [page |-> << >>, limit |-> << >>, search |-> UNDEF],
     data |-> << >>, dataRows |-> {}]

\* GET /api/:modelName: RbacGuard.canActivate, then findAll up to the page read by
\* dataQuery
ListStart(user, modelName, options) ==
    /\ call.pc = "idle"
    /\ listing.pc = "idle"
    /\ modelName \in DOMAIN cache
    /\ SqlTable(cache[modelName]) \in DOMAIN tables
    /\ LET t == SqlTable(cache[modelName])
           decision == canActivate(user, "GET", modelName, 0, cache, rows)
       IN  IF decision # "Allow"
           THEN /\ resp' = [NoResp EXCEPT !.method = "GET", !.user = user,
                                          !.model = modelName, !.decision = decision,
                                          !.status = decision, !.pre = rows[t]]
                /\ UNCHANGED listing
           ELSE /\ listing' = [pc |-> "count", user |-> user, model |-> modelName,
                               options |-> options,
                               data |-> dataQuery(cache[modelName], options, rows[t]),
                               dataRows |-> rows[t]]
                /\ resp' = [NoResp EXCEPT !.method = "GET", !.user = user,
                                          !.model = modelName, !.decision = decision,
                                          !.status = "pending", !.pre = rows[t]]
    /\ UNCHANGED <<tables, rows, serial, files, cache, call, last, prev, nops, pool, faulty,
                   watch, parked, guarded, caller>>

\* findAll: countQuery runs and the response is returned
ListCount ==
    /\ listing.pc = "count"
    /\ LET model == cache[listing.model]
           t == SqlTable(model)
           r == findAll(model, listing.options, listing.dataRows, rows[t])
       IN  resp' = [NoResp EXCEPT !.method = "GET", !.user = listing.user,
                                  !.model = listing.model, !.decision = "Allow",
                                  !.status = "ok", !.executed = TRUE, !.pre = rows[t],
                                  !.list = <<[options |-> listing.options,
                                              data |-> r.data, total |-> r.total,
                                              dataRows |-> listing.dataRows]>>]
    /\ listing' = NoListing
    /\ UNCHANGED <<tables, rows, serial, files, cache, call, last, prev, nops, pool, faulty,
                   watch, parked, guarded, caller>>

\* The tables hold fewer than n rows inserted so far
RowsBelow(n) == \A t \in DOMAIN serial : serial[t] < n

\* ------------------------------------------------------------------ concurrent calls

MaxPairOps == 3    \* publishModel calls of a run that ends with two concurrent ones

\* No second call in flight, and none was
NoParked == [call |-> Idle, base |-> << >>, at |-> 0]

\* The event loop leaves the call in flight at one of its awaits and turns to the other
\* one (the first time: to a request that has not started yet)
Switch ==
    /\ call # parked.call
    /\ parked.base # << >> \/ call.pc # "idle"
    /\ call' = parked.call
    /\ parked' = [call |-> call,
                  base |-> IF parked.base = << >> THEN <<call.pre>> ELSE parked.base,
                  at |-> IF parked.base = << >> THEN nops ELSE parked.at]
    /\ UNCHANGED <<tables, rows, serial, files, cache, last, prev, nops, pool, faulty, resp,
                   listing, watch, guarded, caller>>

\* A second publishModel request may arrive: once, while the first call is in flight,
\* and for another model
SecondMayStart(d) ==
    IF parked.base = << >> THEN nops < MaxPairOps - 1
    ELSE /\ parked.call.pc # "idle"
         /\ nops = parked.at
         /\ d.name # parked.call.input.name

\* ------------------------------------------------------------------ watcher

MaxEdits == 1      \* external edits of the models directory in one run

\* The watcher hands its oldest event to its callback: 'add' and 'change' call loadModel,
\* 'unlink' calls removeModel
WatchEvent ==
    /\ watch.queue # << >>
    /\ LET e == Head(watch.queue)
           newCache == IF e.kind = "unlink" THEN removeModel(cache, e.name)
                       ELSE loadModel(cache, files, e.name)
       IN  /\ cache' = newCache
           /\ watch' = [watch EXCEPT
                           !.queue = Tail(@),
                           !.handled = <<[kind |-> e.kind, name |-> e.name, pre |-> cache,
                                          doc |-> IF e.name \in DOMAIN files
                                                  THEN <<files[e.name]>> ELSE << >>,
                                          post |-> newCache]>>]
    /\ UNCHANGED <<tables, rows, serial, files, call, last, prev, nops, pool, faulty, resp,
                   listing, parked, guarded, caller>>

\* Somebody else writes the document of a model into the models directory
ExternalWrite(modelName, doc) ==
    /\ watch.on
    /\ watch.edits < MaxEdits
    /\ files' = Put(files, modelName, doc)
    /\ watch' = Notify([watch EXCEPT !.edits = @ + 1], files, "write", modelName)
    /\ UNCHANGED <<tables, rows, serial, cache, call, last, prev, nops, pool, faulty, resp,
                   listing, parked, guarded, caller>>

\* Somebody else removes the document of a model from the models directory
ExternalRemove(modelName) ==
    /\ watch.on
    /\ watch.edits < MaxEdits
    /\ modelName \in DOMAIN files
    /\ files' = DropTable(files, modelName)
    /\ watch' = Notify([watch EXCEPT !.edits = @ + 1], files, "unlink", modelName)
    /\ UNCHANGED <<tables, rows, serial, cache, call, last, prev, nops, pool, faulty, resp,
                   listing, parked, guarded, caller>>

\* The publish that registers the model, before any request
SetupStart(d) == cache = << >> /\ PublishStart(d)

\* ------------------------------------------------------------------ specification

\* The service and the registry after construction, no request handled yet
InitCalls(p, f, w) ==
    /\ faulty = f
    /\ files = << >>
    /\ cache = << >>
    /\ call = Idle
    /\ last = NoCall
    /\ prev = [op |-> "none", input |-> EmptyDef, status |-> "none", faults |-> {}]
    /\ nops = 0
    /\ pool = p
    /\ resp = NoResp
    /\ listing = NoListing
    /\ watch = [NoWatch EXCEPT !.on = w]
    /\ parked = NoParked
    /\ guarded = NoGuarded

\* The same over a database without tables, the requests coming from an Admin
InitEngine(p, f, w) ==
    /\ tables = << >>
    /\ rows = << >>
    /\ serial = << >>
    /\ caller = [sub |-> 1, role |-> "Admin"]
    /\ InitCalls(p, f, w)

Init == \E p \in Pools : InitEngine(p, FALSE, FALSE)

InitFaults == \E p \in {{d, e} : d, e \in FaultDefinitions} : InitEngine(p, TRUE, FALSE)

\* What the environment may let fail in a run: nothing, or a database statement or a
\* file operation of the call
PublishFaults == IF faulty THEN {"none", "introspect"} ELSE {"none"}
WriteFaults == IF faulty THEN {"none", "write", "read"} ELSE {"none"}
TxFaults == IF faulty THEN {"none", "ddl", "write", "read"} ELSE {"none"}
DeleteFaults == IF faulty THEN {"none", "ddl", "unlink"} ELSE {"none"}

Next ==
    \/ \E d \in pool : PublishStart(d)
    \/ \E f \in PublishFaults, w \in WriteFaults : PublishSchema(f, w)
    \/ \E f \in TxFaults : PublishTx(f)
    \/ \E d \in pool : DeleteStart(d.name)
    \/ \E f \in DeleteFaults : DeleteDrop(f)

Spec == Init /\ [][Next]_vars

SpecFaults == InitFaults /\ [][Next]_vars

\* Definitions of one model that differ in their fields: a republish adds, removes and
\* keeps fields
RepublishDefinitions ==
    { Definition("P", UNDEF, o, fs, NoRbac) :
        o \in {UNDEF, "o"},
        fs \in { s \in FieldSeqs :
                   /\ s # << >>
                   /\ \A i \in 1..Len(s) :
                         s[i] \in {FieldList[1], FieldList[3], FieldList[6]} } }

InitMigrate == \E p \in {{d, e} : d, e \in RepublishDefinitions} : InitEngine(p, FALSE, FALSE)

SpecMigrate == InitMigrate /\ [][Next]_vars

\* Fields whose type, nullability and default change between two publishes
RetypeFields ==
    << Field("a", "string", FALSE, UNDEF, UNDEF),
       Field("a", "number", TRUE, UNDEF, UNDEF),
       Field("b", "string", FALSE, "x", UNDEF),
       Field("b", "number", FALSE, "5", UNDEF),
       Field("r", "relation", FALSE, UNDEF, "Q"),
       Field("r", "relation", TRUE, UNDEF, "Q") >>

\* Definitions of one model with one or two of these fields, in the order listed
RetypeDefinitions ==
    { Definition("P", UNDEF, UNDEF, <<RetypeFields[i]>>, NoRbac) : i \in 1..Len(RetypeFields) }
    \cup { Definition("P", UNDEF, UNDEF, <<RetypeFields[x[1]], RetypeFields[x[2]]>>, NoRbac) :
             x \in { y \in (1..Len(RetypeFields)) \X (1..Len(RetypeFields)) :
                       /\ y[1] < y[2]
                       /\ RetypeFields[y[1]].name # RetypeFields[y[2]].name } }

InitRetype ==
    \E p \in {{BaseDefinition, d, e} : d, e \in RetypeDefinitions} : InitEngine(p, FALSE, FALSE)

SpecRetype == InitRetype /\ [][Next]_vars

\* The table of the principals, which the application's own schema creates before the
\* service starts: "User" (id, email, password, role)
UserTable ==
    << [column_name |-> "id", data_type |-> "integer", is_nullable |-> "NO",
        column_default |-> <<"nextval">>],
       [column_name |-> "email", data_type |-> "text", is_nullable |-> "NO",
        column_default |-> NoSql],
       [column_name |-> "password", data_type |-> "text", is_nullable |-> "NO",
        column_default |-> NoSql],
       [column_name |-> "role", data_type |-> "text", is_nullable |-> "NO",
        column_default |-> <<"'", "Viewer", "'", "::text">>] >>

\* Definitions that name the principals' table, as model name or as tableName
ReservedDefinitions ==
    { Definition(n, t, UNDEF, <<f>>, NoRbac) :
        n \in {"P", "User"}, t \in {UNDEF, "User"}, f \in {FieldList[1], FieldList[4]} }

InitReserved ==
    \E p \in {{d, e} : d, e \in ReservedDefinitions} :
        /\ tables = [t \in {"User"} |-> UserTable]
        /\ rows = [t \in {"User"} |-> {}]
        /\ serial = [t \in {"User"} |-> 0]
        /\ caller = [sub |-> 1, role |-> "Admin"]
        /\ InitCalls(p, FALSE, FALSE)

SpecReserved == InitReserved /\ [][Next]_vars

\* The publish and delete requests of a run come from any authenticated principal
InitRoles ==
    \E u \in Principals, p \in {{d, e} : d, e \in CoreDefinitions} :
        /\ tables = << >>
        /\ rows = << >>
        /\ serial = << >>
        /\ caller = u
        /\ InitCalls(p, FALSE, FALSE)

SpecRoles == InitRoles /\ [][Next]_vars

\* The documents somebody else writes: a definition with and without tableName, text
\* that is no JSON, a definition without name, a definition without name with tableName
ExternalDocs ==
    { Doc(Definition("P", "p", UNDEF, <<FieldList[2]>>, NoRbac)),
      Doc(Definition("P", UNDEF, UNDEF, <<FieldList[1]>>, NoRbac)),
      [json |-> FALSE, def |-> EmptyDef],
      Doc(Definition(UNDEF, UNDEF, UNDEF, <<FieldList[1]>>, NoRbac)),
      Doc(Definition(UNDEF, "t", UNDEF, <<FieldList[1]>>, NoRbac)) }

MaxWatchOps == 2   \* publishModel / deleteModel calls in a run with the watcher

InitWatch ==
    InitEngine({Definition("P", UNDEF, UNDEF, <<FieldList[1]>>, NoRbac)}, FALSE, TRUE)

NextWatch ==
    \/ \E d \in pool : nops < MaxWatchOps /\ PublishStart(d)
    \/ PublishSchema("none", "none")
    \/ PublishTx("none")
    \/ \E d \in pool : nops < MaxWatchOps /\ DeleteStart(d.name)
    \/ DeleteDrop("none")
    \/ WatchEvent
    \/ \E modelName \in {"P", "Q"}, doc \in ExternalDocs : ExternalWrite(modelName, doc)
    \/ \E modelName \in {"P", "Q"} : ExternalRemove(modelName)

SpecWatch == InitWatch /\ [][NextWatch]_vars

\* The event loop runs the callback of a pending event
SpecWatchFair == SpecWatch /\ WF_vars(WatchEvent)

\* One model published, deleted and published again while the watcher runs
InitRepublish ==
    InitEngine({ Definition("P", UNDEF, UNDEF, <<f>>, NoRbac) :
                    f \in {FieldList[1], FieldList[4]} }, FALSE, TRUE)

\* publishModel and deleteModel calls, and the watcher's callbacks for the file events
\* the calls caused
NextRepublish ==
    \/ \E d \in pool : PublishStart(d)
    \/ PublishSchema("none", "none")
    \/ PublishTx("none")
    \/ \E d \in pool : DeleteStart(d.name)
    \/ DeleteDrop("none")
    \/ WatchEvent

SpecRepublish == InitRepublish /\ [][NextRepublish]_vars

\* Documents somebody else writes for a published model: one that publish would
\* accept, one with a field name that is no identifier
ForeignDocs ==
    { Doc(Definition("P", "p", UNDEF, <<Field(n, "string", FALSE, UNDEF, UNDEF)>>,
                     <<DefaultRbac>>)) : n \in {"b", "a-b"} }

\* The request bodies sent to a model whose document was replaced
ForeignPayloads == { [k \in {n} |-> Str("x")] : n \in {"a", "b", "a-b"} }

\* Publishes, edits of the documents by somebody else, watch events and requests
NextWatchApi ==
    \/ \E d \in pool : nops < MaxWatchOps /\ PublishStart(d)
    \/ PublishSchema("none", "none")
    \/ PublishTx("none")
    \/ WatchEvent
    \/ \E doc \in ForeignDocs : ExternalWrite("P", doc)
    \/ \E user \in Principals, data \in ForeignPayloads :
          \/ RowsBelow(MaxRows) /\ Request(user, "POST", "P", 0, data)
          \/ Request(user, "PUT", "P", 1, data)
    \/ \E user \in Principals :
          \/ Request(user, "GET", "P", 1, << >>)
          \/ Request(user, "DELETE", "P", 1, << >>)

SpecWatchApi == InitWatch /\ [][NextWatchApi]_vars

\* Definitions of three models, two of them with the same table
PairDefinitions ==
    { Definition(n, UNDEF, UNDEF, <<f>>, NoRbac) :
        n \in {"P", "p", "Q"}, f \in {FieldList[1], FieldList[4], FieldList[6]} }

InitPair ==
    \E p \in {{d, e, f} : d, e, f \in PairDefinitions} : InitEngine(p, FALSE, FALSE)

NextPair ==
    \/ \E d \in pool : SecondMayStart(d) /\ PublishStart(d)
    \/ PublishSchema("none", "none")
    \/ PublishTx("none")
    \/ Switch

SpecPair == InitPair /\ [][NextPair]_vars

InitApi == \E d \in ApiDefinitions : InitEngine({d}, FALSE, FALSE)

NextApi ==
    \/ \E d \in pool : SetupStart(d)
    \/ PublishSchema("none", "none")
    \/ PublishTx("none")
    \/ \E user \in Principals, id \in 1..MaxRows, data \in Payloads :
          \/ RowsBelow(MaxRows) /\ Request(user, "POST", "P", 0, data)
          \/ Request(user, "PUT", "P", id, data)
    \/ \E user \in Principals, id \in 1..MaxRows :
          \/ Request(user, "GET", "P", id, << >>)
          \/ Request(user, "DELETE", "P", id, << >>)

SpecApi == InitApi /\ [][NextApi]_vars

\* A model with ownerField and the default policy
InitRace ==
    InitEngine({Definition("P", UNDEF, "o", <<FieldList[1]>>, NoRbac)}, FALSE, FALSE)

\* Requests of several principals on that model: the guard and the handler of a PUT or
\* DELETE are two turns of the event loop, other requests run between them
NextRace ==
    \/ \E d \in pool : SetupStart(d)
    \/ PublishSchema("none", "none")
    \/ PublishTx("none")
    \/ \E user \in Principals, id \in 1..MaxRows, data \in Payloads :
          \/ RowsBelow(MaxRows) /\ Request(user, "POST", "P", 0, data)
          \/ Request(user, "PUT", "P", id, data)
          \/ GuardRequest(user, "PUT", "P", id, data)
    \/ \E user \in Principals, id \in 1..MaxRows : GuardRequest(user, "DELETE", "P", id, << >>)
    \/ RunHandler

SpecRace == InitRace /\ [][NextRace]_vars

\* ------------------------------------------------------------------ lists

MaxListRows == 2   \* rows inserted into the listed table in one run
MaxPage == 3       \* largest page a list request names
MaxLimit == 2      \* largest page size a list request names

\* The model the list requests address: a string field and a number field to search
ListDefinition ==
    Definition("P", UNDEF, "o", <<Field("a", "string", FALSE, UNDEF, UNDEF)>>, NoRbac)

ListPayloads == { [a |-> Str("A")], [a |-> Str("x")] }

ListOptions ==
    { [page |-> p, limit |-> l, search |-> q] :
        p \in {<< >>, <<0>>, <<MaxPage - 1>>},
        l \in {<< >>, <<MaxLimit - 1>>},
        q \in {UNDEF, " a", "2"} }

Admin == [sub |-> 1, role |-> "Admin"]
Manager == [sub |-> 2, role |-> "Manager"]

\* At most one write runs between the two statements of a findAll call
OneWrite == listing.pc = "count" => rows[SqlTable(cache[listing.model])] = listing.dataRows

InitList == InitEngine({ListDefinition}, FALSE, FALSE)

NextList ==
    \/ \E d \in pool : SetupStart(d)
    \/ PublishSchema("none", "none")
    \/ PublishTx("none")
    \/ \E user \in {Admin, Manager}, data \in ListPayloads :
          RowsBelow(MaxListRows) /\ OneWrite /\ Request(user, "POST", "P", 0, data)
    \/ \E id \in 1..MaxListRows : OneWrite /\ Request(Admin, "DELETE", "P", id, << >>)
    \/ \E options \in ListOptions : ListStart(Admin, "P", options)
    \/ ListCount

SpecList == InitList /\ [][NextList]_vars

\* ------------------------------------------------------------------ properties of /api

\* The permission the verb of the last request requires
RespPermission ==
    CASE resp.method = "POST" -> "create"
      [] resp.method = "GET" -> "read"
      [] resp.method = "PUT" -> "update"
      [] resp.method = "DELETE" -> "delete"

\* The policy entry of the model for the role of the last request
RespRoleEntry ==
    LET policy == cache[resp.model].rbac[1]
    IN  IF resp.user.role \in DOMAIN policy THEN policy[resp.user.role] ELSE {}

RespRoleAllows == RespPermission \in RespRoleEntry \/ "all" \in RespRoleEntry

\* The rows of the table the last request addressed
RespRows == rows[SqlTable(cache[resp.model])]

RespOwnerField == cache[resp.model].ownerField

\* The last request was an update or a delete of an existing record of a model that
\* declares ownerField
RespOwned ==
    /\ resp.method \in {"PUT", "DELETE"}
    /\ RespOwnerField # UNDEF
    /\ resp.target # {}

RespIsOwner == \A r \in resp.target : r[RespOwnerField] = Num(resp.user.sub)

\* The access decision allowed the last request and the operation ran on the record:
\* a delete removed it, an update that carries a value for field a was applied
RespSucceeds ==
    /\ resp.decision = "Allow"
    /\ resp.executed
    /\ resp.method = "DELETE" =>
          resp.status = "ok" /\ RespRows = resp.pre \ resp.target
    /\ (resp.method = "PUT" /\ "a" \in DOMAIN resp.data /\ resp.data["a"] # Str("")) =>
          resp.status = "ok" /\ resp.row \in RespRows

\* C1: Role gate. When the policy entry of the model for the principal's role holds
\* neither the permission the verb requires nor 'all', the decision is Forbidden, the
\* operation is not executed and the rows are untouched, also when the principal owns
\* the target record.
C1_RoleGate ==
    (resp.method # "none" /\ ~RespRoleAllows) =>
        /\ resp.decision = "Forbidden"
        /\ resp.status = "Forbidden"
        /\ ~resp.executed
        /\ RespRows = resp.pre

\* A delete by the owner of the record whose role lacks the permission was denied
C1_Witness ==
    /\ resp.method = "DELETE"
    /\ resp.user.role = "Manager"
    /\ RespOwned
    /\ RespIsOwner
    /\ ~RespRoleAllows
    /\ resp.decision = "Forbidden"

\* C2 as stated: on a model with ownerField, an update or delete of an existing record
\* by a non-Admin is Forbidden when the owner value differs from the principal's id
\* and succeeds when it is equal; an Admin succeeds whatever the owner value.
C2_OwnershipGateAsStated ==
    RespOwned =>
        IF resp.user.role = "Admin" THEN RespSucceeds
        ELSE IF RespIsOwner THEN RespSucceeds
        ELSE resp.decision = "Forbidden" /\ ~resp.executed

\* C2: Ownership gate, for a principal whose role passes the role gate: an update or
\* delete of an existing record by a non-Admin is Forbidden when the owner value
\* differs from the principal's id and succeeds when it is equal; an Admin succeeds
\* whatever the owner value.
C2_OwnershipGate ==
    (RespOwned /\ RespRoleAllows) =>
        IF resp.user.role = "Admin" THEN RespSucceeds
        ELSE IF RespIsOwner THEN RespSucceeds
        ELSE resp.decision = "Forbidden" /\ ~resp.executed /\ RespRows = resp.pre

\* A non-Admin whose role holds the permission was denied the update of a record of
\* another principal
C2_Witness ==
    /\ RespOwned
    /\ RespRoleAllows
    /\ resp.method = "PUT"
    /\ resp.user.role # "Admin"
    /\ ~RespIsOwner
    /\ resp.decision = "Forbidden"

\* The names of the declared fields of the model of the last request
RespDeclared == {cache[resp.model].fields[i].name : i \in 1..Len(cache[resp.model].fields)}

\* The value column k of the resulting row has when the statement does not set it
RespUnset(k) ==
    IF resp.method = "PUT" THEN {r[k] : r \in resp.target}
    ELSE IF k = "id" THEN {Num(n) : n \in 1..(MaxRows + 1)}
    ELSE IF k \in {"createdAt", "updatedAt"} THEN {Now}
    ELSE {Null}

\* C9: Safelist coercion. The columns an executed INSERT or UPDATE writes are declared
\* fields of the model (or updatedAt, on update), and a key of the payload that is not
\* a declared field sets no column of the resulting row.
C9_Safelist ==
    (resp.method \in {"POST", "PUT"} /\ resp.status = "ok") =>
        /\ resp.written \subseteq
              RespDeclared \cup (IF resp.method = "PUT" THEN {"updatedAt"} ELSE {})
        /\ \A k \in DOMAIN resp.data \ RespDeclared :
              /\ k \notin resp.written
              /\ k \in DOMAIN resp.row => resp.row[k] \in RespUnset(k)
        /\ DOMAIN resp.row = ColumnNames(tables[SqlTable(cache[resp.model])])

\* A create whose payload names the columns id and z besides a declared field
C9_Witness ==
    /\ resp.method = "POST"
    /\ resp.status = "ok"
    /\ {"id", "z", "a"} \subseteq DOMAIN resp.data
    /\ "a" \in resp.written
    /\ resp.row["id"] # resp.data["id"]

\* C10: Forced ownership. A record created on a model that declares ownerField has
\* its owner field equal to the id of the principal that created it, whatever the
\* payload supplies for that field.
C10_ForcedOwner ==
    (resp.method = "POST" /\ resp.status = "ok" /\ RespOwnerField # UNDEF) =>
        /\ resp.row[RespOwnerField] = Num(resp.user.sub)
        /\ resp.row \in RespRows

\* A create whose payload names another principal as the owner
C10_Witness ==
    /\ resp.method = "POST"
    /\ resp.status = "ok"
    /\ RespOwnerField # UNDEF
    /\ RespOwnerField \in DOMAIN resp.data
    /\ resp.data[RespOwnerField] = Num(1)
    /\ resp.user.sub = 2
    /\ resp.row[RespOwnerField] = Num(2)

\* ------------------------------------------------------------------ properties of publish

\* Strings that do not match ^[A-Za-z_][A-Za-z0-9_]*$
NotIdentifiers == {"", "1p", "p;", "a-b", "x;", "5", "7"}

LastFieldNames == {last.input.fields[i].name : i \in 1..Len(last.input.fields)}

LastTargetModels ==
    {last.input.fields[i].targetModel :
        i \in {j \in 1..Len(last.input.fields) : last.input.fields[j].type = "relation"}}

\* The last call failed in validation and had no effect
LastRejected ==
    /\ last.stage = "validation"
    /\ last.status \in {"BadRequest", "NotFound"}
    /\ last.ddl = << >>
    /\ tables = last.pre.tables
    /\ files = last.pre.files
    /\ cache = last.pre.cache

\* The last call returned with table, documents and registry as they were before it
LastUntouched ==
    /\ tables = last.pre.tables
    /\ files = last.pre.files
    /\ cache = last.pre.cache

\* C3: Idempotent publish. A successful publish of the definition that the call before
\* it published successfully returns 'already up to date' with an empty change list
\* and executes no DDL statement, so the tables are as before the call.
C3_IdempotentPublish ==
    (/\ last.op = "publish" /\ last.status = "ok"
     /\ prev.op = "publish" /\ prev.status = "ok"
     /\ prev.input = last.input) =>
        /\ last.message = "uptodate"
        /\ last.changes = << >>
        /\ last.ddl = << >>
        /\ tables = last.pre.tables

\* C4 as stated: a publish whose model name, table name, a field name, ownerField or
\* relation targetModel does not match the identifier pattern fails with a validation
\* error, executes no DDL, writes no document and changes no registry entry.
C4_IdentifierSafetyAsStated ==
    (/\ last.op = "publish"
     /\ \/ last.input.name \in NotIdentifiers
        \/ last.input.tableName \in NotIdentifiers
        \/ last.input.ownerField \in NotIdentifiers
        \/ LastFieldNames \cap NotIdentifiers # {}
        \/ LastTargetModels \cap NotIdentifiers # {}) => LastRejected

\* C4: Identifier safety. A publish whose model name, non-empty table name, a field
\* name, non-empty ownerField or relation targetModel does not match the identifier
\* pattern fails with a validation error, executes no DDL, writes no document and
\* changes no registry entry (an empty tableName or ownerField counts as not given).
C4_IdentifierSafety ==
    (/\ last.op = "publish"
     /\ \/ last.input.name \in NotIdentifiers
        \/ last.input.tableName \in NotIdentifiers \ {""}
        \/ last.input.ownerField \in NotIdentifiers \ {""}
        \/ LastFieldNames \cap NotIdentifiers # {}
        \/ LastTargetModels \cap NotIdentifiers # {}) => LastRejected

\* A publish with a table name that carries a statement separator was rejected while
\* another model was registered
C4_Witness ==
    /\ last.op = "publish"
    /\ last.input.name = "P"
    /\ last.input.tableName = "p;"
    /\ last.status = "BadRequest"
    /\ "Q" \in DOMAIN cache
    /\ "P" \notin DOMAIN files

\* C5: Publish ordering and migration failure. While the create-table or migration
\* transaction of a publish has not committed, document and registry are as before the
\* call; a publish whose transaction fails returns an error and leaves table, document
\* and registry as before the call; a publish that wrote a document or replaced a
\* registry entry has committed its transaction.
C5_PublishOrdering ==
    /\ (call.op = "publish" /\ call.pc \in {"schema", "tx"}) =>
          /\ tables = call.pre.tables
          /\ files = call.pre.files
          /\ cache = call.pre.cache
    /\ (last.op = "publish" /\ last.stage = "tx") =>
          /\ last.status = "Internal"
          /\ last.ddl = << >>
          /\ LastUntouched
    /\ (last.op = "publish" /\ (files # last.pre.files \/ cache # last.pre.cache)) =>
          /\ last.stage = "done"
          /\ last.def.tableName \in DOMAIN tables
          /\ last.message \in {"created", "updated"} => last.ddl # << >>

\* The migration of an existing table failed in the database
C5_Witness ==
    /\ last.op = "publish"
    /\ last.stage = "tx"
    /\ "ddl" \in last.faults
    /\ last.def.tableName \in DOMAIN last.pre.tables
    /\ last.def.name \notin DOMAIN last.pre.files
    /\ LastUntouched

\* The table of a definition exists with a column for each field and the system columns
Converged(def) ==
    /\ def.tableName \in DOMAIN tables
    /\ {"id", "createdAt", "updatedAt"} \cup {def.fields[i].name : i \in 1..Len(def.fields)}
          \subseteq {tables[def.tableName][i].column_name :
                        i \in 1..Len(tables[def.tableName])}

\* C6: A definition is never partially applied. When a publish returns, either it
\* succeeded and the table is converged and document and registry entry hold the
\* definition, or it failed and table, document and registry are as before the call.
C6_NeverPartiallyApplied ==
    last.op = "publish" =>
        \/ /\ last.status = "ok"
           /\ Converged(last.def)
           /\ last.def.name \in DOMAIN files
           /\ files[last.def.name].def = last.def
           /\ last.def.name \in DOMAIN cache
           /\ cache[last.def.name] = last.def
        \/ /\ last.status # "ok"
           /\ LastUntouched

\* C7: Every model that has a definition document has a live table, named by the
\* tableName of the document, with the columns id, createdAt, updatedAt and one column
\* for each field of the document.
C7_DocumentsHaveTables ==
    call.pc = "idle" => \A n \in DOMAIN files : Converged(files[n].def)

\* The owner field of a definition: a field of that name and of type number
HasOwnerField(def) ==
    def.ownerField \notin {UNDEF, ""} =>
        \E i \in 1..Len(def.fields) :
            def.fields[i].name = def.ownerField /\ def.fields[i].type = "number"

\* C8: Every persisted and every registered definition with ownerField set has a field
\* of that name and of type number; when the submitted field list lacks it, the
\* definition carries it as the last field, a non-required number, from before the
\* catalog is queried, and the table gets its column.
C8_OwnerFieldPresent ==
    /\ \A n \in DOMAIN files : HasOwnerField(files[n].def)
    /\ \A n \in DOMAIN cache : HasOwnerField(cache[n])
    /\ (call.op = "publish" /\ call.pc \in {"schema", "tx"}) => HasOwnerField(call.def)
    /\ (/\ last.op = "publish" /\ last.status = "ok"
        /\ last.input.ownerField \notin {UNDEF, ""}
        /\ last.input.ownerField \notin LastFieldNames) =>
          /\ last.def.fields =
                Append(last.input.fields,
                       [name |-> last.input.ownerField, type |-> "number",
                        required |-> FALSE, default |-> UNDEF, targetModel |-> UNDEF])
          /\ files[last.def.name].def = last.def
          /\ Converged(last.def)

\* A definition submitted without its owner field was published and persisted with it
C8_Witness ==
    /\ last.op = "publish"
    /\ last.status = "ok"
    /\ last.input.ownerField = "o"
    /\ "o" \notin LastFieldNames
    /\ "P" \in DOMAIN files
    /\ files["P"].def.fields[Len(files["P"].def.fields)].name = "o"
    /\ "P" \in DOMAIN cache
    /\ HasOwnerField(cache["P"])

\* ------------------------------------------------------------------ properties of lists

\* The rows a search term matches: a term in a value of the string field a, without
\* regard to case, or in the digits of the number field o
Matches(R, q) ==
    CASE q = UNDEF -> R
      [] q = " a" -> {r \in R : r["a"] \in {Str("a"), Str("A")}}
      [] q = "2" -> {r \in R : r["o"] = Num(2)}

\* Number of pages of size L that hold N rows
PageCount(N, L) == (N + L - 1) \div L

\* The list response for one page of the rows R
PageOf(R, p, L, q) ==
    findAll(cache["P"], [page |-> <<p>>, limit |-> <<L>>, search |-> q], R, R)

\* The sum of the lengths of data over the pages 1..k
RECURSIVE SumOfLengths(_, _)
SumOfLengths(pages, k) ==
    IF k = 0 THEN 0 ELSE Len(pages[k].data) + SumOfLengths(pages, k - 1)

SeqRange(seq) == {seq[i] : i \in 1..Len(seq)}

\* C11: Pagination consistency. For the rows of the table, every search term and every
\* page size L >= 1, with N the number of matching rows: the lengths of data over the
\* pages 1..ceil(N/L) sum to N, no row is on two pages, every listed row matches, and
\* total is N on every page; a list response that no write ran into is such a page.
\* (The pages are computed for the rows that the publish, a create or a delete leaves:
\* a list request changes no row.)
C11_Pagination ==
    /\ ("P" \in DOMAIN cache /\ "p" \in DOMAIN rows /\ resp.method # "GET") =>
          \A q \in {UNDEF, " a", "2"}, L \in 1..MaxLimit :
              LET R == rows["p"]
                  N == Cardinality(Matches(R, q))
                  pages == [p \in 1..PageCount(N, L) |-> PageOf(R, p, L, q)]
              IN  /\ SumOfLengths(pages, PageCount(N, L)) = N
                  /\ \A p1, p2 \in DOMAIN pages :
                        p1 # p2 => SeqRange(pages[p1].data) \cap SeqRange(pages[p2].data) = {}
                  /\ \A p1 \in DOMAIN pages :
                        /\ pages[p1].total = N
                        /\ SeqRange(pages[p1].data) \subseteq Matches(R, q)
                        /\ Cardinality(SeqRange(pages[p1].data)) = Len(pages[p1].data)
    /\ (resp.list # << >> /\ resp.list[1].dataRows = resp.pre) =>
          /\ resp.list[1].total = Cardinality(Matches(resp.pre, resp.list[1].options.search))
          /\ SeqRange(resp.list[1].data)
                \subseteq Matches(resp.pre, resp.list[1].options.search)

\* The second page of size 1 of two matching rows was listed
C11_Witness ==
    /\ resp.list # << >>
    /\ resp.list[1].dataRows = resp.pre
    /\ resp.list[1].options = [page |-> <<2>>, limit |-> <<1>>, search |-> " a"]
    /\ Len(resp.list[1].data) = 1
    /\ resp.list[1].total = 2
    /\ resp.list[1].data[1]["id"] = Num(1)

\* ------------------------------------------------------------------ properties of migrations

\* The last call republished a model whose table existed with the columns of its earlier
\* definition: every field kept from that definition is unchanged, a field is added and
\* a field is removed
RepublishedWithKeptFields ==
    /\ last.op = "publish"
    /\ last.status = "ok"
    /\ last.def.name \in DOMAIN last.pre.files
    /\ last.pre.files[last.def.name].def.tableName = last.def.tableName
    /\ last.def.tableName \in DOMAIN last.pre.tables
    /\ ColumnNames(last.pre.tables[last.def.tableName])
          = {"id", "createdAt", "updatedAt"}
            \cup FieldNames(last.pre.files[last.def.name].def.fields)
    /\ \A i \in 1..Len(last.def.fields) :
          last.def.fields[i].name \in FieldNames(last.pre.files[last.def.name].def.fields)
             => \E j \in 1..Len(last.pre.files[last.def.name].def.fields) :
                   last.pre.files[last.def.name].def.fields[j] = last.def.fields[i]
    /\ FieldNames(last.def.fields)
          \ FieldNames(last.pre.files[last.def.name].def.fields) # {}
    /\ FieldNames(last.pre.files[last.def.name].def.fields)
          \ FieldNames(last.def.fields) # {}

\* C12: a republish with fields removed, fields added and the kept fields unchanged
\* reports exactly one change per added field and one per removed field's column and
\* nothing else, and drops none of id, createdAt, updatedAt and the ownerField column.
C12_AddedAndRemovedOnly ==
    RepublishedWithKeptFields =>
        LET old == FieldNames(last.pre.files[last.def.name].def.fields)
            new == FieldNames(last.def.fields)
            expected == {[kind |-> "add", col |-> f] : f \in new \ old}
                        \cup {[kind |-> "remove", col |-> f] : f \in old \ new}
        IN  /\ {last.changes[i] : i \in 1..Len(last.changes)} = expected
            /\ Len(last.changes) = Cardinality(expected)
            /\ \A i \in 1..Len(last.changes) :
                  last.changes[i].kind = "remove" =>
                     last.changes[i].col \notin {"id", "createdAt", "updatedAt"}
                                                \cup {last.def.ownerField}

\* C13: publish returns the 'table created' result exactly when the target table did not
\* exist before the call, and then the table has exactly the columns id, createdAt,
\* updatedAt and one column per field of the definition; when the table existed, publish
\* returns a migration result.
C13_CreatedWhenAbsent ==
    (last.op = "publish" /\ last.status = "ok") =>
        /\ last.message = "created" <=> last.def.tableName \notin DOMAIN last.pre.tables
        /\ last.message = "created" =>
              /\ last.def.tableName \in DOMAIN tables
              /\ [i \in 1..Len(tables[last.def.tableName]) |->
                     tables[last.def.tableName][i].column_name]
                    = <<"id", "createdAt", "updatedAt">>
                      \o [i \in 1..Len(last.def.fields) |-> last.def.fields[i].name]
        /\ last.def.tableName \in DOMAIN last.pre.tables =>
              last.message \in {"updated", "uptodate"}

\* C14: after deleteModel(name) succeeds, the table named by the tableName of the model's
\* definition does not exist, the document is removed and the registry has no entry for
\* name; deleteModel of a name without a document fails with NotFound and changes no
\* table, document or registry entry.
C14_DeleteRemovesTable ==
    /\ (last.op = "delete" /\ last.status = "ok") =>
          /\ last.pre.files[last.input.name].def.tableName \notin DOMAIN tables
          /\ last.input.name \notin DOMAIN files
          /\ last.input.name \notin DOMAIN cache
    /\ (last.op = "delete" /\ isValidIdentifier(last.input.name)
        /\ last.input.name \notin DOMAIN last.pre.files) =>
          /\ last.status = "NotFound"
          /\ Snapshot = last.pre

\* ------------------------------------------------------------------ properties of the registry

\* The document the watcher's last loadModel call found is missing, unparsable or
\* without a model name
HandledMalformed ==
    \/ watch.handled[1].doc = << >>
    \/ ~watch.handled[1].doc[1].json
    \/ watch.handled[1].doc[1].def.name = UNDEF

\* C15: load(name) on a document that is missing, unparsable or without a model name
\* leaves the registry exactly as it was; load(name) on a well-formed document replaces
\* the entry for name by the document's definition and changes no other entry.
C15_LoadMalformed ==
    (watch.handled # << >> /\ watch.handled[1].kind \in {"add", "change"}) =>
        IF HandledMalformed
        THEN watch.handled[1].post = watch.handled[1].pre
        ELSE /\ DOMAIN watch.handled[1].post
                   = DOMAIN watch.handled[1].pre \cup {watch.handled[1].name}
             /\ \A n \in DOMAIN watch.handled[1].pre \ {watch.handled[1].name} :
                   watch.handled[1].post[n] = watch.handled[1].pre[n]
             /\ [watch.handled[1].post[watch.handled[1].name] EXCEPT !.tableName = UNDEF]
                   = [watch.handled[1].doc[1].def EXCEPT !.tableName = UNDEF]

\* The document of a name is well-formed: JSON text of a definition that has a name
WellFormed(n) == n \in DOMAIN files /\ files[n].json /\ files[n].def.name # UNDEF

\* The registry has the content of every well-formed document, and nothing for a name
\* without document
RegistryEqualsDocuments ==
    \A n \in DOMAIN files \cup DOMAIN cache :
        /\ WellFormed(n) => n \in DOMAIN cache /\ cache[n] = files[n].def
        /\ n \notin DOMAIN files => n \notin DOMAIN cache

\* The same, an absent tableName of the document being read as the lower-cased name
RegistryAgrees ==
    \A n \in DOMAIN files \cup DOMAIN cache :
        /\ WellFormed(n) =>
              /\ n \in DOMAIN cache
              /\ cache[n] = IF files[n].def.tableName \in {UNDEF, ""}
                            THEN [files[n].def EXCEPT !.tableName = ToLowerCase(files[n].def.name)]
                            ELSE files[n].def
        /\ n \notin DOMAIN files => n \notin DOMAIN cache

\* C16 as stated: after the publishes, deleteModels and external edits of a run, once
\* the pending watch events are processed the registry has for each well-formed document
\* an entry equal to the document's content, and no entry for a name without document.
C16_EventuallyEqual == <>[]RegistryEqualsDocuments

\* C16: after the publishes, deleteModels and external edits of a run, once the pending
\* watch events are processed the registry has for each well-formed document an entry
\* equal to the document's content with tableName defaulted to the lower-cased name, and
\* no entry for a name without document.
C16_EventuallyAgrees == <>[]RegistryAgrees

\* The watcher has loaded a document written from outside, no event is pending and the
\* registry agrees with the documents
C16_Witness ==
    /\ watch.queue = << >>
    /\ watch.edits > 0
    /\ watch.handled # << >>
    /\ watch.handled[1].kind = "add"
    /\ WellFormed("Q")
    /\ "Q" \in DOMAIN cache
    /\ RegistryAgrees

\* ------------------------------------------------------------------ properties of update

\* C17: update(model, id, payload) with a payload that keeps a declared field fails with
\* NotFound when no row of the model's table has that id, and changes no row.
C17_UpdateNotFound ==
    (/\ resp.method = "PUT"
     /\ resp.executed
     /\ resp.target = {}
     /\ DOMAIN resp.data \cap RespDeclared # {}) =>
        /\ resp.status = "NotFound"
        /\ rows[SqlTable(cache[resp.model])] = resp.pre

\* ------------------------------------------------------------------ properties of concurrent publishes

\* publishModel(d) run alone from the tables, documents and registry of snap
PublishAlone(snap, d) ==
    IF validateModelDefinition(d, snap.cache) # "ok" THEN snap
    ELSE LET def == Augment(d)
             schema == getTableSchema(snap.tables, def.tableName)
             throws == IF Len(schema) = 0 THEN createThrows(def)
                       ELSE migrateThrows(def, schema)
             stmts == IF Len(schema) = 0 THEN createTableQueries(def)
                      ELSE migrationQueries(def, schema)
             r == Transaction(snap.tables, def.tableName, stmts, 0)
             newFiles == Put(snap.files, def.name, Doc(def))
         IN  IF throws THEN snap
             ELSE IF ~r.ok THEN snap
             ELSE [tables |-> r.tables, files |-> newFiles,
                   cache |-> loadModel(snap.cache, newFiles, def.name)]

\* Two states have the same tables with the same columns, the same documents and the
\* same registry
SameState(s1, s2) ==
    /\ DOMAIN s1.tables = DOMAIN s2.tables
    /\ \A t \in DOMAIN s1.tables :
          {s1.tables[t][i] : i \in 1..Len(s1.tables[t])}
             = {s2.tables[t][i] : i \in 1..Len(s2.tables[t])}
    /\ s1.files = s2.files
    /\ s1.cache = s2.cache

\* Two publishModel calls for different models ran concurrently and both have returned
PairReturned ==
    /\ parked.base # << >>
    /\ nops = parked.at + 1
    /\ call.pc = "idle"
    /\ parked.call.pc = "idle"

\* C18: two concurrent publishes for different model names leave the tables, documents
\* and registry entries as one of the two orders of running them one after the other
\* does, and neither changes a column of the table of the other model.
C18_Independent ==
    PairReturned =>
        /\ \/ SameState(Snapshot,
                        PublishAlone(PublishAlone(parked.base[1], prev.input), last.input))
           \/ SameState(Snapshot,
                        PublishAlone(PublishAlone(parked.base[1], last.input), prev.input))
        /\ (/\ last.status = "ok"
            /\ prev.input.name \in DOMAIN files
            /\ \E i \in 1..Len(last.ddl) : last.ddl[i].op # "CREATE TABLE") =>
              last.def.tableName # files[prev.input.name].def.tableName

\* ------------------------------------------------------------------ properties of list responses

Min(x, y) == IF x <= y THEN x ELSE y
Max(x, y) == IF x >= y THEN x ELSE y

\* The page and the page size a list response was asked for (1 and 10 when the query
\* names none or 0)
ListPage == IF resp.list[1].options.page \in {<< >>, <<0>>} THEN 1
            ELSE resp.list[1].options.page[1]
ListLimit == IF resp.list[1].options.limit \in {<< >>, <<0>>} THEN 10
             ELSE resp.list[1].options.limit[1]

\* C19: in every list response, also when creates and deletes of rows of the model run
\* concurrently with it, page and count come from one snapshot: data.length equals
\* min(limit, max(0, total - (page - 1) * limit)) for the returned total.
C19_OneSnapshot ==
    resp.list # << >> =>
        Len(resp.list[1].data)
           = Min(ListLimit, Max(0, resp.list[1].total - (ListPage - 1) * ListLimit))

\* ------------------------------------------------------------------ properties of the default policy

\* What the default policy grants to the role of the last request
DefaultGrants ==
    \/ resp.user.role = "Admin"
    \/ resp.user.role = "Manager" /\ RespPermission \in {"create", "read", "update"}
    \/ resp.user.role = "Viewer" /\ RespPermission = "read"

Migrated == last.op = "publish" /\ last.status = "ok" /\ last.message = "updated"

\* C21: the statements of one migration are executed, and their log entries reported,
\* in this order: the column additions, the column drops, then for each kept field in
\* declaration order its retype, its NULL backfill followed at once by SET NOT NULL (or
\* its DROP NOT NULL), its default change; the change list has one entry per executed
\* statement, in execution order.
C21_MigrationOrder ==
    Migrated =>
        LET s == last.ddl
            kindOf == [o \in {"ADD COLUMN", "DROP COLUMN", "ALTER TYPE", "UPDATE NULLS",
                              "SET NOT NULL", "DROP NOT NULL", "SET DEFAULT", "DROP DEFAULT"}
                       |-> CASE o = "ADD COLUMN" -> "add"
                             [] o = "DROP COLUMN" -> "remove"
                             [] o = "ALTER TYPE" -> "retype"
                             [] o = "UPDATE NULLS" -> "backfill"
                             [] o = "SET NOT NULL" -> "require"
                             [] o = "DROP NOT NULL" -> "optional"
                             [] o = "SET DEFAULT" -> "setdefault"
                             [] o = "DROP DEFAULT" -> "dropdefault"]
            step(o) == CASE o = "ALTER TYPE" -> 1
                         [] o = "UPDATE NULLS" -> 2
                         [] o \in {"SET NOT NULL", "DROP NOT NULL"} -> 3
                         [] o \in {"SET DEFAULT", "DROP DEFAULT"} -> 4
            place(i) == CASE s[i].op = "ADD COLUMN" -> 0
                          [] s[i].op = "DROP COLUMN" -> 1
                          [] OTHER -> 2 + 4 * FindField(last.def.fields, s[i].col)
                                       + step(s[i].op)
        IN  /\ Len(last.changes) = Len(s)
            /\ \A i \in 1..Len(s) :
                  /\ s[i].op \in DOMAIN kindOf
                  /\ last.changes[i] = [kind |-> kindOf[s[i].op], col |-> s[i].col]
                  /\ s[i].op \notin {"ADD COLUMN", "DROP COLUMN"} =>
                        /\ FindField(last.def.fields, s[i].col) # 0
                        /\ s[i].col \in ColumnNames(last.pre.tables[last.def.tableName])
                        /\ s[i].col \notin ProtectedColumns(last.def)
                  /\ s[i].op = "UPDATE NULLS" =>
                        /\ i < Len(s)
                        /\ s[i + 1].op = "SET NOT NULL"
                        /\ s[i + 1].col = s[i].col
            /\ \A i, j \in 1..Len(s) :
                  i < j => /\ place(i) <= place(j)
                           /\ place(i) >= 2 => place(i) < place(j)

\* A migration that added a column, dropped one, and retyped and required a kept one
C21_Witness ==
    /\ Migrated
    /\ \A k \in {"add", "remove", "retype", "backfill", "require"} :
          \E i \in 1..Len(last.changes) : last.changes[i].kind = k

\* C22: when a kept field is now required and its column is nullable, the migration
\* first replaces the column's NULLs with the zero value of the field's type ('' for
\* string, 0 for number, FALSE for boolean, the epoch for date, and no non-null value
\* for relation) and only then sets NOT NULL.
C22_BackfillZeroValue ==
    Migrated =>
        LET s == last.ddl
            typeOf(col) == last.def.fields[FindField(last.def.fields, col)].type
            zero == [t \in FieldTypes |->
                       CASE t = "string" -> <<"'", "", "'">>
                         [] t = "number" -> <<"0">>
                         [] t = "boolean" -> <<"FALSE">>
                         [] t = "date" -> <<"'", "1970-01-01T00:00:00Z", "'">>
                         [] t = "relation" -> <<"NULL">>]
        IN  \A i \in 1..Len(s) :
               /\ s[i].op = "SET NOT NULL" /\ typeOf(s[i].col) # "relation" =>
                     /\ i > 1
                     /\ s[i - 1].op = "UPDATE NULLS"
                     /\ s[i - 1].col = s[i].col
               /\ s[i].op = "UPDATE NULLS" =>
                     /\ s[i].sql = zero[typeOf(s[i].col)]
                     /\ \E j \in (i + 1)..Len(s) :
                           s[j].op = "SET NOT NULL" /\ s[j].col = s[i].col

\* ------------------------------------------------------------------ failing statements

\* C23: every database statement that fails during a publish, the catalog query
\* included, surfaces as an error of that publish: the call executes no DDL after it,
\* writes no document, refreshes no registry entry and reports no table as created or
\* migrated.
C23_FailureSurfaces ==
    (last.op = "publish" /\ last.faults \cap {"introspect", "ddl"} # {}) =>
        /\ last.status = "Internal"
        /\ last.message \notin {"created", "updated", "uptodate"}
        /\ last.ddl = << >>
        /\ call.pc = "idle" =>
              /\ tables = last.pre.tables
              /\ files = last.pre.files
              /\ cache = last.pre.cache

\* ------------------------------------------------------------------ identifiers in SQL

\* C24: every table name and column name that an operation puts into its SQL text
\* matches ^[A-Za-z_][A-Za-z0-9_]*$, for every definition the registry can hold,
\* including definitions loaded from documents that publish did not write.
C24_ValidatedIdentifiers ==
    /\ \A i \in 1..Len(last.ddl) :
          /\ isValidIdentifier(last.def.tableName)
          /\ last.ddl[i].col # UNDEF => isValidIdentifier(last.ddl[i].col)
    /\ resp.executed => \A n \in resp.idents : isValidIdentifier(n)

\* ------------------------------------------------------------------ field names

\* C25: in every definition that publish persists, no two fields have names that are
\* equal ignoring letter case, the field appended for the ownerField included.
C25_UniqueFieldNames ==
    \A n \in DOMAIN files :
        \A i, j \in 1..Len(files[n].def.fields) :
            i # j => ToLowerCase(files[n].def.fields[i].name)
                        # ToLowerCase(files[n].def.fields[j].name)

\* ------------------------------------------------------------------ owner of a record

\* C26: on a model with ownerField, no update issued by a principal whose role is not
\* Admin changes a record's owner field: the updated record carries the owner value it
\* had before the update, which is the id of the principal that created it.
C26_OwnerKept ==
    (/\ RespOwned
     /\ resp.method = "PUT"
     /\ resp.user.role # "Admin"
     /\ resp.status = "ok") =>
        /\ \A r \in resp.target : resp.row[RespOwnerField] = r[RespOwnerField]
        /\ \A r \in RespRows : r[RespOwnerField] \in {Num(u.sub) : u \in Principals}

\* ------------------------------------------------------------------ concurrent requests

\* C27: with concurrent requests on a model with ownerField, whenever an update or
\* delete issued by a non-Admin principal is applied to a row, the row's owner value at
\* the moment the statement is applied equals the principal's id.
C27_OwnerAtMutation ==
    (/\ RespOwned
     /\ resp.user.role # "Admin"
     /\ resp.executed
     /\ resp.status = "ok") => RespIsOwner

\* ------------------------------------------------------------------ reserved tables

\* C28: no sequence of publish and deleteModel calls, publishes with a tableName
\* override included, adds, drops or alters columns of a reserved table (here the
\* principals' table) or drops such a table.
C28_ReservedUntouched ==
    "User" \in DOMAIN tables /\ tables["User"] = UserTable

\* ------------------------------------------------------------------ who may publish

\* C29: publishModel and deleteModel take effect only for a principal whose role is
\* Admin: a request of an authenticated principal with another role never creates,
\* migrates or drops a model's table, document or registry entry.
C29_AdminOnly ==
    caller.role # "Admin" =>
        /\ tables = << >>
        /\ files = << >>
        /\ cache = << >>
        /\ last.status \notin {"ok"}

\* ------------------------------------------------------------------ registry after publish

\* C30: after publish(name) returns successfully, get(name) returns the published
\* definition in every later state until the next publish or deleteModel call (or
\* external edit of the document), whatever watch events caused by earlier operations
\* are still pending and processed afterwards.
C30_PublishedStaysRegistered ==
    (last.op = "publish" /\ last.status = "ok" /\ call.pc = "idle") =>
        /\ last.def.name \in DOMAIN cache
        /\ cache[last.def.name] = last.def

====
